---- MODULE Spec2Model ----
(***************************************************************************)
(* State-machine model of the chunking, embedding and database code of     *)
(* step2_vector_database.py (class VectorDatabase) and of the retrieval    *)
(* and conversation code of step3_qa_system.py (class RAGChatbot).         *)
(*                                                                         *)
(* Strings are sequences of one-character strings, so that len(), strip(), *)
(* split('\n') and the joins are computed character by character.          *)
(***************************************************************************)
EXTENDS Integers, Sequences, FiniteSets, TLC

\* ---------------------------------------------------------------------
\* Bounds of the model
\* ---------------------------------------------------------------------
MaxLen == 6
MaxMin == 8
MaxRetriesBound == 5

\* Characters the enumerated Markdown inputs are made of: a heading mark,
\* an ordinary character, a blank and a line break.
Alphabet == {"#", "a", " ", "\n"}

Texts == UNION {[1..k -> Alphabet] : k \in 0..MaxLen}

MinChunkSizes == (-1)..MaxMin

\* The scenario "# A\nfoo\n# B\nbar" with min_chunk_size = 1000.
ExampleText ==
    <<"#", " ", "A", "\n", "f", "o", "o", "\n", "#", " ", "B", "\n", "b", "a", "r">>

\* "#\n#a\n#\n#" with min_chunk_size = 2: the first chunk is closed by the
\* 2 * min_chunk_size test and the last one is a merge of two sections.
MixedText == <<"#", "\n", "#", "a", "\n", "#", "\n", "#">>

Scenarios ==
    {[text |-> ExampleText, m |-> 1000],
     [text |-> MixedText, m |-> 2]}

FilePaths == {"doc.md"}

\* Vectors the embedding service may answer with.
Vectors == {<<1, 0>>, <<0, 1>>, <<1, 1>>}

\* None.  Every vector of the service has a positive dimension, so the empty
\* tuple is no vector.
NoValue == <<>>

\* Texts handed to get_embedding.
EmbedTexts == {<<"#">>, <<"#", "a">>}

VARIABLES
    \* process_md_content
    md_text, file_path, min_chunk_size,
    pc, raw_sections, next_section,
    current_chunk, current_titles, current_levels, documents,
    \* get_embedding
    embed_text, max_retries, epc, attempt, events, embedding,
    \* VectorDatabase: its fields, a running build_index, the last results
    model_name, index, texts, metadata, embeddings,
    bpc, content_list, build_docs, build_next, build_embeddings, build_texts,
    build_metadata, build_log, build_result, save_result, load_result, builds, ops,
    \* history variable: what the last successful save_database was given
    saved,
    \* the database directory
    disk,
    \* RAGChatbot: its fields
    bot_status, bot_error, embedding_model, bot_index, bot_texts, bot_metadata,
    bot_config,
    conversation_history,
    \* RAGChatbot: a running search_similar_documents or chat
    cpc, caller, user_query, top_k, query_requests, query_vector, similar_docs,
    context, messages, response, call_result, history_before, chats,
    \* run_rag_system.py: its position, its arguments, the parsed-content
    \* directories
    rpc, run_mode, db_name, outputs,
    \* step2_vector_database.py as a command: its position, sys.argv[1:], the
    \* parsed arguments, its exit status
    mpc, argv, args, returncode,
    \* load_parsed_content: the files still to visit, the dictionaries made so
    \* far, the one `content` refers to (content_ref), the references in content_list
    walk_left, heap, content_ref, load_list

chunkVars == <<md_text, file_path, min_chunk_size, pc, raw_sections, next_section,
               current_chunk, current_titles, current_levels, documents>>

embedVars == <<embed_text, max_retries, epc, attempt, events, embedding>>

dbVars == <<model_name, index, texts, metadata, embeddings,
            bpc, content_list, build_docs, build_next, build_embeddings, build_texts,
            build_metadata, build_log, build_result, save_result, load_result, builds, ops,
            saved>>

botVars == <<bot_status, bot_error, embedding_model, bot_index, bot_texts, bot_metadata,
             bot_config, conversation_history>>

callVars == <<cpc, caller, user_query, top_k, query_requests, query_vector,
              similar_docs, context, messages, response, call_result,
              history_before, chats>>

runVars == <<rpc, run_mode, db_name, outputs, mpc, argv, args, returncode,
             walk_left, heap, content_ref, load_list>>

vars == <<chunkVars, embedVars, dbVars, disk, botVars, callVars, runVars>>

\* ---------------------------------------------------------------------
\* String primitives of Python used by process_md_content
\* ---------------------------------------------------------------------
\* str.strip() with no argument removes these characters.
IsSpace(c) == c \in {" ", "\n", "\t", "\r"}

RECURSIVE LStrip(_)
LStrip(s) == IF s # <<>> /\ IsSpace(Head(s)) THEN LStrip(Tail(s)) ELSE s

RECURSIVE RStrip(_)
RStrip(s) ==
    IF s # <<>> /\ IsSpace(s[Len(s)]) THEN RStrip(SubSeq(s, 1, Len(s) - 1)) ELSE s

Strip(s) == LStrip(RStrip(s))

\* str.lstrip('#')
RECURSIVE LStripHash(_)
LStripHash(s) == IF s # <<>> /\ Head(s) = "#" THEN LStripHash(Tail(s)) ELSE s

\* Faulty variant: a '#' anywhere in the line makes it a heading.
StartsWithHashAnywhere(s) == \E k \in 1..Len(s) : s[k] = "#"

\* str.startswith('#')
StartsWithHash(s) == s # <<>> /\ Head(s) = "#"

\* str.endswith(t)
EndsWith(s, t) == Len(t) <= Len(s) /\ SubSeq(s, Len(s) - Len(t) + 1, Len(s)) = t

\* str.startswith(t)
StartsWith(s, t) == Len(t) <= Len(s) /\ SubSeq(s, 1, Len(t)) = t

\* str.split('\n')
RECURSIVE SplitLines(_)
SplitLines(s) ==
    IF \A k \in 1..Len(s) : s[k] # "\n"
    THEN <<s>>
    ELSE LET k == CHOOSE j \in 1..Len(s) :
                      s[j] = "\n" /\ \A h \in 1..(j - 1) : s[h] # "\n"
         IN  <<SubSeq(s, 1, k - 1)>> \o SplitLines(SubSeq(s, k + 1, Len(s)))

\* sep.join(parts)
RECURSIVE Join(_, _)
Join(sep, parts) ==
    IF parts = <<>> THEN <<>>
    ELSE IF Len(parts) = 1 THEN parts[1]
    ELSE parts[1] \o sep \o Join(sep, Tail(parts))

\* Faulty variant: the first element instead of the smallest.
MinFirst(levels) == levels[1]

\* min(list) of a non-empty list of integers
Min(levels) ==
    CHOOSE x \in {levels[k] : k \in 1..Len(levels)} :
        \A k \in 1..Len(levels) : x <= levels[k]

\* ---------------------------------------------------------------------
\* process_md_content, first loop: splitting into raw sections
\* ---------------------------------------------------------------------
\* len(line_stripped) - len(line_stripped.lstrip('#'))
SectionLevel(line_stripped) == Len(line_stripped) - Len(LStripHash(line_stripped))

\* Faulty variant: the lines collected before the first heading are saved as
\* a section without title.
SaveSectionUntitled(st) ==
    IF st.current_section # <<>>
    THEN LET content == Strip(Join(<<"\n">>, st.current_section))
         IN  IF content # <<>>
             THEN Append(st.raw_sections,
                         [text |-> content,
                          title |-> st.current_title,
                          level |-> st.section_level])
             ELSE st.raw_sections
    ELSE st.raw_sections

\* The "save the section collected so far" block (lines 127-134, 146-153).
SaveSection(st) ==
    IF st.current_section # <<>> /\ st.current_title # <<>>
    THEN LET content == Strip(Join(<<"\n">>, st.current_section))
         IN  IF content # <<>>
             THEN Append(st.raw_sections,
                         [text |-> content,
                          title |-> st.current_title,
                          level |-> st.section_level])
             ELSE st.raw_sections
    ELSE st.raw_sections

\* One iteration of "for line in lines".
ScanLine(st, line) ==
    LET line_stripped == Strip(line)
    IN  IF StartsWithHash(line_stripped)
        THEN [raw_sections    |-> SaveSection(st),
              current_title   |-> line_stripped,
              section_level   |-> SectionLevel(line_stripped),
              current_section |-> <<line>>]
        ELSE [st EXCEPT !.current_section = Append(@, line)]

RECURSIVE ScanLines(_, _)
ScanLines(st, lines) ==
    IF lines = <<>> THEN st ELSE ScanLines(ScanLine(st, Head(lines)), Tail(lines))

ScanInit ==
    [raw_sections |-> <<>>, current_section |-> <<>>,
     current_title |-> <<>>, section_level |-> 0]

\* raw_sections as it stands at line 155.
RawSections(text) == SaveSection(ScanLines(ScanInit, SplitLines(text)))

\* ---------------------------------------------------------------------
\* process_md_content, second loop: merging short sections
\* ---------------------------------------------------------------------
\* Faulty variant: the sections are joined by one line break only.
PotentialChunkOneBreak(chunk, text) == chunk \o <<"\n">> \o text

\* potential_chunk = current_chunk + '\n\n' + section['text']
PotentialChunk(chunk, text) == chunk \o <<"\n", "\n">> \o text

\* Faulty variant: the comparison with min_chunk_size is turned round.
ChunkCompleteFlipped(chunk, potential_chunk, m) ==
    Len(chunk) <= m \/ Len(potential_chunk) > m * 2

\* Faulty variant: a chunk of exactly min_chunk_size is not yet complete.
ChunkCompleteStrict(chunk, potential_chunk, m) ==
    Len(chunk) > m \/ Len(potential_chunk) > m * 2

\* The test that completes the current chunk (line 175).
ChunkComplete(chunk, potential_chunk, m) ==
    Len(chunk) >= m \/ Len(potential_chunk) > m * 2

MainTitle(titles) == titles[1]

\* Faulty variant: the titles are joined without the blanks round the bar.
CombinedTitlesNoBlanks(titles) ==
    IF Len(titles) > 1 THEN Join(<<"|">>, titles) ELSE MainTitle(titles)

CombinedTitles(titles) ==
    IF Len(titles) > 1 THEN Join(<<" ", "|", " ">>, titles) ELSE MainTitle(titles)

\* The doc dictionary built at lines 180-194 and 212-226.
MakeDoc(chunk, titles, levels, path) ==
    [text            |-> chunk,
     source          |-> "markdown",
     title           |-> MainTitle(titles),
     combined_titles |-> CombinedTitles(titles),
     level           |-> Min(levels),
     metadata        |->
        [file_path               |-> path,
         section_title           |-> MainTitle(titles),
         combined_section_titles |-> CombinedTitles(titles),
         section_level           |-> Min(levels),
         sections_count          |-> Len(titles),
         char_count              |-> Len(chunk)]]

\* Faulty variant: the list is replaced by the new doc instead of extended.
AppendDocOverwrite(docs, chunk, titles, levels, path) ==
    <<MakeDoc(chunk, titles, levels, path)>>

\* documents.append(doc), lines 195 and 227.
AppendDoc(docs, chunk, titles, levels, path) ==
    Append(docs, MakeDoc(chunk, titles, levels, path))

\* Faulty variant: the accumulator left after the loop is forgotten.
FlushedDocumentsForgotten(docs, chunk, titles, levels, path) == docs

\* "if current_chunk:" ... documents.append(doc), lines 208-227.
FlushedDocuments(docs, chunk, titles, levels, path) ==
    IF chunk # <<>> THEN AppendDoc(docs, chunk, titles, levels, path) ELSE docs

\* Lines 115-162: split the text; no raw section means "return []".
SplitSections ==
    /\ pc = "start"
    /\ raw_sections' = RawSections(md_text)
    /\ pc' = IF raw_sections' = <<>> THEN "done" ELSE "merge"
    /\ next_section' = 1
    /\ UNCHANGED <<md_text, file_path, min_chunk_size,
                   current_chunk, current_titles, current_levels, documents>>
    /\ UNCHANGED <<runVars, embedVars, dbVars, disk, botVars, callVars>>

\* Lines 164-205: one iteration of "for i, section in enumerate(raw_sections)".
MergeSection ==
    /\ pc = "merge"
    /\ next_section <= Len(raw_sections)
    /\ LET section == raw_sections[next_section]
           potential_chunk == PotentialChunk(current_chunk, section.text)
       IN  IF current_chunk = <<>>
           THEN /\ current_chunk' = section.text
                /\ current_titles' = <<section.title>>
                /\ current_levels' = <<section.level>>
                /\ UNCHANGED documents
           ELSE IF ChunkComplete(current_chunk, potential_chunk, min_chunk_size)
           THEN /\ documents' = AppendDoc(documents, current_chunk, current_titles,
                                          current_levels, file_path)
                /\ current_chunk' = section.text
                /\ current_titles' = <<section.title>>
                /\ current_levels' = <<section.level>>
           ELSE /\ current_chunk' = potential_chunk
                /\ current_titles' = Append(current_titles, section.title)
                /\ current_levels' = Append(current_levels, section.level)
                /\ UNCHANGED documents
    /\ next_section' = next_section + 1
    /\ UNCHANGED <<md_text, file_path, min_chunk_size, pc, raw_sections>>
    /\ UNCHANGED <<runVars, embedVars, dbVars, disk, botVars, callVars>>

\* Lines 207-229: the last chunk, then "return documents".
FlushLastChunk ==
    /\ pc = "merge"
    /\ next_section > Len(raw_sections)
    /\ documents' = FlushedDocuments(documents, current_chunk, current_titles,
                                     current_levels, file_path)
    /\ pc' = "done"
    /\ UNCHANGED <<md_text, file_path, min_chunk_size, raw_sections, next_section,
                   current_chunk, current_titles, current_levels>>
    /\ UNCHANGED <<runVars, embedVars, dbVars, disk, botVars, callVars>>

\* ---------------------------------------------------------------------
\* Values of the database and chatbot fields
\* ---------------------------------------------------------------------
\* self.index = None.  A FAISS flat index is its dimension d and its vectors
\* in insertion order (ntotal is their number).
NoIndex == [present |-> FALSE, d |-> 0, vectors |-> <<>>]

\* No config loaded.
NoConfig == [model_name |-> "", dimension |-> 0, total_vectors |-> 0]

\* faiss.write_index / faiss.read_index: the file holds d, ntotal and the
\* ntotal vectors.
WriteIndex(ix) ==
    [format |-> "faiss", d |-> ix.d, ntotal |-> Len(ix.vectors), vectors |-> ix.vectors]

ReadIndex(data) ==
    [present |-> TRUE, d |-> data.d, vectors |-> SubSeq(data.vectors, 1, data.ntotal)]

\* pickle.dump / pickle.load of a list.
PickleDump(list) == [format |-> "pickle", length |-> Len(list), items |-> list]

PickleLoad(data) == SubSeq(data.items, 1, data.length)

\* json.dump / json.load of the config dictionary.
JsonDump(config) ==
    [format |-> "json",
     pairs  |-> <<<<"model_name", config.model_name, 0>>,
                  <<"dimension", "", config.dimension>>,
                  <<"total_vectors", "", config.total_vectors>>>>]

JsonLoad(data) ==
    [model_name    |-> data.pairs[1][2],
     dimension     |-> data.pairs[2][3],
     total_vectors |-> data.pairs[3][3]]

\* A file of the database directory that does not exist, per artifact.
NoIndexFile == [exists |-> FALSE, data |-> WriteIndex(NoIndex)]

NoListFile == [exists |-> FALSE, data |-> PickleDump(<<>>)]

NoConfigFile == [exists |-> FALSE, data |-> JsonDump(NoConfig)]

\* The database directory does not exist.
NoDirectory ==
    [exists        |-> FALSE,
     index_faiss   |-> NoIndexFile,
     texts_pkl     |-> NoListFile,
     metadata_pkl  |-> NoListFile,
     config_json   |-> NoConfigFile]

\* No save_database has returned yet.
NothingSaved ==
    [from_build |-> FALSE, index |-> NoIndex, texts |-> <<>>, metadata |-> <<>>]

DbIdle ==
    /\ model_name = ""
    /\ index = NoIndex
    /\ texts = <<>>
    /\ metadata = <<>>
    /\ embeddings = <<>>
    /\ bpc = "idle"
    /\ content_list = <<>>
    /\ build_docs = <<>>
    /\ build_next = 1
    /\ build_embeddings = <<>>
    /\ build_texts = <<>>
    /\ build_metadata = <<>>
    /\ build_log = <<>>
    /\ build_result = "none"
    /\ save_result = "none"
    /\ load_result = "none"
    /\ builds = 0
    /\ ops = 0
    /\ saved = NothingSaved

DiskIdle == disk = NoDirectory

BotIdle ==
    /\ bot_status = "none"
    /\ bot_error = ""
    /\ embedding_model = ""
    /\ bot_index = NoIndex
    /\ bot_texts = <<>>
    /\ bot_metadata = <<>>
    /\ bot_config = NoConfig
    /\ conversation_history = <<>>

CallIdle ==
    /\ cpc = "idle"
    /\ caller = "none"
    /\ user_query = <<>>
    /\ top_k = 0
    /\ query_requests = 0
    /\ query_vector = <<>>
    /\ similar_docs = <<>>
    /\ context = <<>>
    /\ messages = <<>>
    /\ response = <<>>
    /\ call_result = "none"
    /\ history_before = <<>>
    /\ chats = 0

\* "./output" and "./vector_db", and the directory of a named database:
\* f"./output_{db_name}" (step1 line 131, run_rag_system line 172).
OutputRoot == <<".", "/", "o", "u", "t", "p", "u", "t">>

VectorDbRoot == <<".", "/", "v", "e", "c", "t", "o", "r", "_", "d", "b">>

NoName == <<>>

NamedDir(root, name) == IF name = NoName THEN root ELSE root \o <<"_">> \o name

\* A directory that does not exist.
NoOutput == [exists |-> FALSE, walk |-> <<>>]

\* The defaults of the three options, lines 404-409.
DefaultArgs ==
    [input_dir |-> OutputRoot, db_dir |-> VectorDbRoot, model |-> "text-embedding-3-small"]

RunIdle ==
    /\ rpc = "idle"
    /\ run_mode = "none"
    /\ db_name = NoName
    /\ outputs = [dir \in {OutputRoot} |-> NoOutput]
    /\ mpc = "none"
    /\ argv = <<>>
    /\ args = DefaultArgs
    /\ returncode = 0 - 1
    /\ walk_left = <<>>
    /\ heap = <<>>
    /\ content_ref = 0
    /\ load_list = <<>>

ChunkIdle ==
    /\ md_text = <<>>
    /\ file_path = ""
    /\ min_chunk_size = 0
    /\ pc = "idle"
    /\ raw_sections = <<>>
    /\ next_section = 1
    /\ current_chunk = <<>>
    /\ current_titles = <<>>
    /\ current_levels = <<>>
    /\ documents = <<>>

EmbedIdle ==
    /\ embed_text = <<>>
    /\ max_retries = 0
    /\ epc = "idle"
    /\ attempt = 0
    /\ events = <<>>
    /\ embedding = NoValue

\* ---------------------------------------------------------------------
\* get_embedding
\* ---------------------------------------------------------------------
\* What the process did, in order: requests to the embedding service with
\* their outcome, and calls of time.sleep.
CreateEvent(text, outcome, vector) ==
    [op |-> "create", input |-> text, result |-> outcome, vector |-> vector]

SleepEvent(seconds) == [op |-> "sleep", seconds |-> seconds]

\* 2 ** attempt
BackoffSeconds(a) == 2 ^ a

\* Faulty variant: off by one, a retry is assumed after the last attempt too.
RetryFollowsAlways(a, retries) == a < retries

\* attempt < max_retries - 1
RetryFollows(a, retries) == a < retries - 1

\* Lines 57-61: the request succeeds and its vector is returned.
CreateSucceeds ==
    /\ epc = "loop"
    /\ attempt < max_retries
    /\ \E v \in Vectors :
          /\ events' = Append(events, CreateEvent(embed_text, "ok", v))
          /\ embedding' = v
    /\ epc' = "returned"
    /\ UNCHANGED <<embed_text, max_retries, attempt>>
    /\ UNCHANGED <<runVars, chunkVars, dbVars, disk, botVars, callVars>>

\* Lines 57-67: the request raises; sleep and go on, or re-raise.
CreateFails ==
    /\ epc = "loop"
    /\ attempt < max_retries
    /\ IF RetryFollows(attempt, max_retries)
       THEN /\ events' = events \o <<CreateEvent(embed_text, "error", NoValue),
                                     SleepEvent(BackoffSeconds(attempt))>>
            /\ attempt' = attempt + 1
            /\ epc' = "loop"
       ELSE /\ events' = Append(events, CreateEvent(embed_text, "error", NoValue))
            /\ epc' = "raised"
            /\ UNCHANGED attempt
    /\ UNCHANGED <<embed_text, max_retries, embedding>>
    /\ UNCHANGED <<runVars, chunkVars, dbVars, disk, botVars, callVars>>

\* Line 55: range(max_retries) is exhausted; the function falls off its end
\* and returns None.
LoopExhausted ==
    /\ epc = "loop"
    /\ attempt >= max_retries
    /\ epc' = "returned"
    /\ embedding' = NoValue
    /\ UNCHANGED <<embed_text, max_retries, attempt, events>>
    /\ UNCHANGED <<runVars, chunkVars, dbVars, disk, botVars, callVars>>

\* A call get_embedding(embed_text, max_retries).
InitEmbed ==
    /\ embed_text \in EmbedTexts
    /\ max_retries \in 0..MaxRetriesBound
    /\ epc = "loop"
    /\ attempt = 0
    /\ events = <<>>
    /\ embedding = NoValue
    /\ ChunkIdle
    /\ DbIdle /\ DiskIdle /\ BotIdle /\ CallIdle /\ RunIdle

NextEmbed == CreateSucceeds \/ CreateFails \/ LoopExhausted

SpecEmbed == InitEmbed /\ [][NextEmbed]_vars

\* A call process_md_content(md_text, file_path, min_chunk_size).
InitChunk ==
    /\ \/ md_text \in Texts /\ min_chunk_size \in MinChunkSizes
       \/ \E sc \in Scenarios : md_text = sc.text /\ min_chunk_size = sc.m
    /\ file_path \in FilePaths
    /\ pc = "start"
    /\ raw_sections = <<>>
    /\ next_section = 1
    /\ current_chunk = <<>>
    /\ current_titles = <<>>
    /\ current_levels = <<>>
    /\ documents = <<>>
    /\ EmbedIdle
    /\ DbIdle /\ DiskIdle /\ BotIdle /\ CallIdle /\ RunIdle

NextChunk == SplitSections \/ MergeSection \/ FlushLastChunk

Spec == InitChunk /\ [][NextChunk]_vars

\* ---------------------------------------------------------------------
\* Properties of process_md_content
\* ---------------------------------------------------------------------
\* process_md_content has returned; documents is its result.
Returned == pc = "done"

SectionTexts(secs) == [k \in 1..Len(secs) |-> secs[k].text]

SectionTitles(secs) == [k \in 1..Len(secs) |-> secs[k].title]

DocTexts(docs) == [k \in 1..Len(docs) |-> docs[k].text]

RECURSIVE SumLen(_)
SumLen(strings) ==
    IF strings = <<>> THEN 0 ELSE Len(Head(strings)) + SumLen(Tail(strings))

RECURSIVE SumCharCount(_)
SumCharCount(docs) ==
    IF docs = <<>> THEN 0
    ELSE Head(docs).metadata.char_count + SumCharCount(Tail(docs))

RECURSIVE SumSectionsCount(_)
SumSectionsCount(docs) ==
    IF docs = <<>> THEN 0
    ELSE Head(docs).metadata.sections_count + SumSectionsCount(Tail(docs))

\* The raw sections that chunk i is made of, going by the sections_count of
\* the chunks up to it.
FirstSectionOf(i) == 1 + SumSectionsCount(SubSeq(documents, 1, i - 1))

LastSectionOf(i) == FirstSectionOf(i) + documents[i].metadata.sections_count - 1

SectionsOf(i) == SubSeq(raw_sections, FirstSectionOf(i), LastSectionOf(i))

BlankLine == <<"\n", "\n">>

\* C1 (as stated): the sum of char_count over the returned chunks equals the
\* sum of the lengths of the trimmed raw section texts.
C1_CharCountIsSectionLength ==
    Returned => SumCharCount(documents) = SumLen(SectionTexts(raw_sections))

\* C1 (amended): the sum of char_count over the returned chunks equals the
\* sum of the lengths of the trimmed raw section texts plus 2 for every merge,
\* that is plus 2 * (number of raw sections - number of chunks): a merge adds
\* the two-character separator "\n\n" and nothing else.
C1_CharCountCountsSeparators ==
    Returned =>
        SumCharCount(documents) =
            SumLen(SectionTexts(raw_sections))
                + 2 * (Len(raw_sections) - Len(documents))

\* A result of several chunks, one of them merged from several sections.
C1_Witness ==
    /\ Returned
    /\ Len(documents) >= 2
    /\ \E i \in 1..Len(documents) : documents[i].metadata.sections_count >= 2

\* C2 (as stated): with at least one section and a total trimmed section
\* length below min_chunk_size, exactly one chunk is returned, holding all
\* the sections in document order.
C2_ShortTotalGivesOneChunk ==
    (/\ Returned
     /\ Len(raw_sections) >= 1
     /\ SumLen(SectionTexts(raw_sections)) < min_chunk_size)
    => /\ Len(documents) = 1
       /\ documents[1].text = Join(BlankLine, SectionTexts(raw_sections))

\* C2 (amended): with at least one section, when the section texts joined
\* by "\n\n" are together shorter than min_chunk_size, exactly one chunk is
\* returned and its text is that join of all the sections in document order.
C2_ShortJoinGivesOneChunk ==
    (/\ Returned
     /\ Len(raw_sections) >= 1
     /\ Len(Join(BlankLine, SectionTexts(raw_sections))) < min_chunk_size)
    => /\ Len(documents) = 1
       /\ documents[1].text = Join(BlankLine, SectionTexts(raw_sections))

\* Three sections merged into the only chunk.
C2_Witness ==
    /\ Returned
    /\ Len(raw_sections) >= 3
    /\ Len(Join(BlankLine, SectionTexts(raw_sections))) < min_chunk_size
    /\ Len(documents) = 1

\* C3: when every raw section is longer than min_chunk_size, there are as
\* many chunks as sections and chunk i is exactly section i (sections_count 1).
C3_LongSectionsStayApart ==
    (/\ Returned
     /\ \A k \in 1..Len(raw_sections) : Len(raw_sections[k].text) > min_chunk_size)
    => /\ Len(documents) = Len(raw_sections)
       /\ \A i \in 1..Len(documents) :
             /\ documents[i].text = raw_sections[i].text
             /\ documents[i].title = raw_sections[i].title
             /\ documents[i].metadata.sections_count = 1

\* Several sections, each longer than a positive min_chunk_size.
C3_Witness ==
    /\ Returned
    /\ min_chunk_size >= 1
    /\ Len(raw_sections) >= 2
    /\ \A k \in 1..Len(raw_sections) : Len(raw_sections[k].text) > min_chunk_size
    /\ Len(documents) = Len(raw_sections)

\* C4: the accumulator is closed before section s is taken exactly when its
\* length is >= min_chunk_size or it would, joined with s, be longer than
\* 2 * min_chunk_size, and s is merged into it otherwise; so every chunk but
\* the last is that long or is followed by a section that would have pushed
\* it past 2 * min_chunk_size, and every chunk of more than one section is
\* at most 2 * min_chunk_size long.
C4_MergeRule ==
    /\ [][(pc = "merge" /\ next_section <= Len(raw_sections) /\ current_chunk # <<>>)
           => LET s == raw_sections[next_section].text
                  closes ==
                      \/ Len(current_chunk) >= min_chunk_size
                      \/ Len(current_chunk) + 2 + Len(s) > 2 * min_chunk_size
              IN  IF closes
                  THEN /\ Len(documents') = Len(documents) + 1
                       /\ documents'[Len(documents')].text = current_chunk
                       /\ current_chunk' = s
                  ELSE /\ documents' = documents
                       /\ current_chunk' = current_chunk \o BlankLine \o s]_vars
    /\ [](Returned =>
            \A i \in 1..Len(documents) :
                /\ i < Len(documents) =>
                      \/ Len(documents[i].text) >= min_chunk_size
                      \/ Len(documents[i].text) + 2
                            + Len(raw_sections[FirstSectionOf(i + 1)].text)
                         > 2 * min_chunk_size
                /\ documents[i].metadata.sections_count > 1 =>
                      Len(documents[i].text) <= 2 * min_chunk_size)

\* A chunk shorter than min_chunk_size closed because of the section after
\* it, together with a chunk merged from several sections.
C4_Witness ==
    /\ Returned
    /\ \E i \in 1..(Len(documents) - 1) : Len(documents[i].text) < min_chunk_size
    /\ \E i \in 1..Len(documents) : documents[i].metadata.sections_count > 1

\* C5: every chunk has the title of the first section merged into it and,
\* as combined_titles, the titles of all its sections in document order
\* joined with " | " (its title when it has one section); "# A\nfoo\n# B\nbar"
\* with min_chunk_size 1000 gives one chunk with combined_titles "# A | # B".
C5_Titles ==
    Returned =>
        /\ \A i \in 1..Len(documents) :
              /\ documents[i].title = raw_sections[FirstSectionOf(i)].title
              /\ documents[i].combined_titles =
                    Join(<<" ", "|", " ">>, SectionTitles(SectionsOf(i)))
              /\ documents[i].metadata.sections_count = 1 =>
                    documents[i].combined_titles = documents[i].title
        /\ (md_text = ExampleText /\ min_chunk_size = 1000) =>
              /\ Len(documents) = 1
              /\ documents[1].combined_titles =
                    <<"#", " ", "A", " ", "|", " ", "#", " ", "B">>

\* The scenario, returned as one chunk of two sections.
C5_Witness ==
    /\ Returned
    /\ md_text = ExampleText
    /\ min_chunk_size = 1000
    /\ Len(documents) = 1
    /\ documents[1].metadata.sections_count = 2

\* The number of '#' characters a heading starts with.
LeadingHashes(s) == Cardinality({k \in 1..Len(s) : \A j \in 1..k : s[j] = "#"})

\* C6: in every chunk text is non-empty, level and metadata.section_level are
\* the least count of leading '#' among the headings of its sections,
\* metadata.char_count is the length of text, and metadata.sections_count is
\* the number of sections merged into it.
C6_ChunkFields ==
    Returned =>
        \A i \in 1..Len(documents) :
            LET d == documents[i]
                secs == SectionsOf(i)
            IN  /\ d.text # <<>>
                /\ d.metadata.sections_count >= 1
                /\ LastSectionOf(i) <= Len(raw_sections)
                /\ d.text = Join(BlankLine, SectionTexts(secs))
                /\ \E k \in 1..Len(secs) : d.level = LeadingHashes(secs[k].title)
                /\ \A k \in 1..Len(secs) : d.level <= LeadingHashes(secs[k].title)
                /\ d.metadata.section_level = d.level
                /\ d.metadata.char_count = Len(d.text)

\* A merged chunk whose level comes from a section after its first.
C6_Witness ==
    /\ Returned
    /\ \E i \in 1..Len(documents) :
          /\ documents[i].metadata.sections_count >= 2
          /\ documents[i].level < LeadingHashes(documents[i].title)

\* C7: every raw section is in exactly one chunk and the chunks follow
\* document order: the sections_count of the chunks add up to the number of
\* raw sections, and the accumulator left after the last section is the last
\* chunk, also when it is shorter than min_chunk_size.
C7_EverySectionOnce ==
    Returned =>
        /\ SumSectionsCount(documents) = Len(raw_sections)
        /\ Join(BlankLine, DocTexts(documents))
              = Join(BlankLine, SectionTexts(raw_sections))
        /\ raw_sections # <<>> =>
              /\ documents # <<>>
              /\ documents[Len(documents)].text = current_chunk
              /\ LastSectionOf(Len(documents)) = Len(raw_sections)

\* The last of several chunks is shorter than min_chunk_size.
C7_Witness ==
    /\ Returned
    /\ Len(documents) >= 2
    /\ Len(documents[Len(documents)].text) < min_chunk_size

\* Some line of the text has '#' as its first character that is not white space.
HasHeadingLine(text) ==
    \E k \in 1..Len(text) :
        /\ text[k] = "#"
        /\ \A j \in 1..(k - 1) :
              ~IsSpace(text[j]) => \E h \in (j + 1)..(k - 1) : text[h] = "\n"

\* C8: a text without a heading line, the empty text included, gives no chunk.
C8_NoHeadingNoChunk ==
    (Returned /\ ~HasHeadingLine(md_text)) => documents = <<>>

\* A text with a '#' inside a line and no heading line.
C8_Witness ==
    /\ Returned
    /\ ~HasHeadingLine(md_text)
    /\ \E k \in 1..Len(md_text) : md_text[k] = "#"
    /\ documents = <<>>

InputLines == SplitLines(md_text)

IsHeadingLine(k) == StartsWithHash(Strip(InputLines[k]))

\* Every line between heading line k and the next heading line is blank.
EmptyBody(k) ==
    \A j \in (k + 1)..Len(InputLines) :
        (\A h \in (k + 1)..j : ~IsHeadingLine(h)) => Strip(InputLines[j]) = <<>>

\* C9: a section whose content after its heading line is empty after
\* trimming is dropped: the raw sections are the headings with a non-empty
\* body, and no raw section consists of its heading alone.
C9_EmptySectionDropped ==
    Returned =>
        /\ Len(raw_sections) =
              Cardinality({k \in 1..Len(InputLines) :
                              IsHeadingLine(k) /\ ~EmptyBody(k)})
        /\ \A k \in 1..Len(raw_sections) :
              raw_sections[k].text # raw_sections[k].title

\* ---------------------------------------------------------------------
\* Properties of get_embedding
\* ---------------------------------------------------------------------
FailedCreate == CreateEvent(embed_text, "error", NoValue)

\* a failed requests, each followed by a sleep of 2^0, 2^1, ... seconds.
FailuresWithBackoff(a) ==
    [k \in 1..(2 * a) |->
        IF k % 2 = 1 THEN FailedCreate ELSE SleepEvent(2 ^ ((k \div 2) - 1))]

CreateCount == Cardinality({k \in 1..Len(events) : events[k].op = "create"})

\* C10: for max_retries >= 1 one call of get_embedding makes at most
\* max_retries requests, returns the vector of the first successful request
\* without a further one, sleeps 2^attempt seconds after a failed attempt
\* only when another attempt follows, and after max_retries failed attempts
\* raises instead of returning.
C10_RetryPolicy ==
    max_retries >= 1 =>
        /\ CreateCount <= max_retries
        /\ epc = "loop" =>
              /\ attempt < max_retries
              /\ events = FailuresWithBackoff(attempt)
        /\ epc = "returned" =>
              /\ embedding \in Vectors
              /\ events = Append(FailuresWithBackoff(attempt),
                                 CreateEvent(embed_text, "ok", embedding))
        /\ epc = "raised" =>
              /\ embedding = NoValue
              /\ events = Append(FailuresWithBackoff(max_retries - 1), FailedCreate)
        /\ epc = "raised" <=>
              Cardinality({k \in 1..Len(events) : events[k] = FailedCreate})
                  = max_retries

\* Three attempts failed: two sleeps of 1 and 2 seconds, then the error.
C10_Witness ==
    /\ epc = "raised"
    /\ max_retries = 3
    /\ CreateCount = 3
    /\ events[2] = SleepEvent(1)
    /\ events[4] = SleepEvent(2)

\* ---------------------------------------------------------------------
\* The embedding service and the vector arithmetic of FAISS
\* ---------------------------------------------------------------------
\* Embedding models and the dimension of their vectors, scaled down: the two
\* 1536-dimensional models to 2, the 3072-dimensional one to 3.
Models == {"text-embedding-3-small", "text-embedding-3-large", "text-embedding-ada-002"}

EmbeddingDimension(model) == IF model = "text-embedding-3-large" THEN 3 ELSE 2

\* Vectors the service may answer with for a model.  Their lengths are whole
\* numbers, so that normalising stays within the rationals.
ServiceVectors(model) ==
    IF EmbeddingDimension(model) = 3
    THEN {<<1, 0, 0>>, <<0, 4, 3>>}
    ELSE {<<0, 1>>, <<3, 4>>}

RECURSIVE Dot(_, _)
Dot(a, b) == IF a = <<>> THEN 0 ELSE Head(a) * Head(b) + Dot(Tail(a), Tail(b))

\* The Euclidean norm of a vector whose norm is a whole number.
Norm(v) == CHOOSE n \in 0..Dot(v, v) : n * n = Dot(v, v)

\* faiss.normalize_L2 of one vector: v / |v|, kept as numerators over a
\* common denominator; a zero vector is left as it is.
NormalizeL2(v) == [num |-> v, den |-> IF Norm(v) = 0 THEN 1 ELSE Norm(v)]

\* The inner product of two stored vectors, a rational num / den with den > 0.
InnerProduct(a, b) == [num |-> Dot(a.num, b.num), den |-> a.den * b.den]

\* s < t for rationals with positive denominators.
Less(s, t) == s.num * t.den < t.num * s.den

\* ---------------------------------------------------------------------
\* VectorDatabase: build_index, save_database, load_database
\*
\* The chatbot reads the directory once, when it is constructed, so the
\* database operations are followed up to that point only.
\* ---------------------------------------------------------------------
MaxFiles == 2
MaxBuilds == 1
MaxOps == 3

DefaultMinChunkSize == 2000

\* process_md_content as a function of its arguments: the merge loop of lines
\* 164-205 run to its end, then the last chunk.
RECURSIVE MergeSections(_, _, _, _, _, _, _)
MergeSections(secs, docs, chunk, titles, levels, path, m) ==
    IF secs = <<>>
    THEN FlushedDocuments(docs, chunk, titles, levels, path)
    ELSE LET section == Head(secs)
             potential_chunk == PotentialChunk(chunk, section.text)
         IN  IF chunk = <<>>
             THEN MergeSections(Tail(secs), docs, section.text,
                                <<section.title>>, <<section.level>>, path, m)
             ELSE IF ChunkComplete(chunk, potential_chunk, m)
             THEN MergeSections(Tail(secs),
                                AppendDoc(docs, chunk, titles, levels, path),
                                section.text, <<section.title>>, <<section.level>>,
                                path, m)
             ELSE MergeSections(Tail(secs), docs, potential_chunk,
                                Append(titles, section.title),
                                Append(levels, section.level), path, m)

ProcessMdContent(text, path, m) ==
    LET secs == RawSections(text)
    IN  IF secs = <<>> THEN <<>>
        ELSE MergeSections(secs, <<>>, <<>>, <<>>, <<>>, path, m)

\* The parsed files build_index may be given: two with a heading and one
\* that is empty.
ContentFiles ==
    {[md_data |-> <<"#">>, md_path |-> "a.md"],
     [md_data |-> <<"#", "#", " ", "b", "\n", "c">>, md_path |-> "b.md"],
     [md_data |-> <<>>, md_path |-> "d.md"]}

ContentLists == UNION {[1..k -> ContentFiles] : k \in 0..MaxFiles}

\* Lines 243-257: the documents of all the files of content_list.
RECURSIVE BuildDocuments(_)
BuildDocuments(list) ==
    IF list = <<>> THEN <<>>
    ELSE LET content_data == Head(list)
         IN  (IF content_data.md_data # <<>>
              THEN ProcessMdContent(content_data.md_data, content_data.md_path,
                                    DefaultMinChunkSize)
              ELSE <<>>)
             \o BuildDocuments(Tail(list))

\* Lines 294-304: the flat inner-product index over the normalised embeddings.
BuiltIndex(embs) ==
    [present |-> TRUE,
     d       |-> Len(embs[1]),
     vectors |-> [k \in 1..Len(embs) |-> NormalizeL2(embs[k])]]

\* The config records the dimension as the number of vectors.
ConfigOfDimensionAsTotal(model, ix) ==
    [model_name    |-> model,
     dimension     |-> IF ix.present THEN ix.d ELSE 0,
     total_vectors |-> IF ix.present THEN ix.d ELSE 0]

\* Lines 334-338.
ConfigOf(model, ix) ==
    [model_name    |-> model,
     dimension     |-> IF ix.present THEN ix.d ELSE 0,
     total_vectors |-> IF ix.present THEN Len(ix.vectors) ELSE 0]

\* Lines 241-269: build_index(content_list) is called.
BuildStart ==
    /\ bpc = "idle"
    /\ bot_status = "none"
    /\ builds < MaxBuilds
    /\ build_docs' = BuildDocuments(content_list)
    /\ build_next' = 1
    /\ build_embeddings' = <<>>
    /\ build_texts' = <<>>
    /\ build_metadata' = <<>>
    /\ build_log' = <<>>
    /\ build_result' = "none"
    /\ bpc' = "embed"
    /\ builds' = builds + 1
    /\ UNCHANGED <<model_name, index, texts, metadata, embeddings, content_list,
                   save_result, load_result, ops, saved>>
    /\ UNCHANGED <<runVars, chunkVars, embedVars, disk, botVars, callVars>>

\* Lines 271-280: get_embedding returns a vector for the next document.
EmbedDocSucceeds ==
    /\ bpc = "embed"
    /\ build_next <= Len(build_docs)
    /\ LET doc == build_docs[build_next]
       IN  /\ \E v \in ServiceVectors(model_name) :
                 build_embeddings' = Append(build_embeddings, v)
           /\ build_texts' = Append(build_texts, doc.text)
           /\ build_metadata' = Append(build_metadata, doc)
           /\ build_log' = Append(build_log, [text |-> doc.text, ok |-> TRUE])
    /\ build_next' = build_next + 1
    /\ UNCHANGED <<model_name, index, texts, metadata, embeddings, bpc, content_list,
                   build_docs, build_result, save_result, load_result, builds, saved, ops>>
    /\ UNCHANGED <<runVars, chunkVars, embedVars, disk, botVars, callVars>>

\* A failed embedding ends the loop over the documents.
EmbedDocFailsStops ==
    /\ bpc = "embed"
    /\ build_next <= Len(build_docs)
    /\ build_log' = Append(build_log, [text |-> build_docs[build_next].text, ok |-> FALSE])
    /\ build_next' = Len(build_docs) + 1
    /\ UNCHANGED <<model_name, index, texts, metadata, embeddings, bpc, content_list,
                   build_docs, build_embeddings, build_texts, build_metadata,
                   build_result, save_result, load_result, builds, saved, ops>>
    /\ UNCHANGED <<runVars, chunkVars, embedVars, disk, botVars, callVars>>

\* Lines 271-284: get_embedding raises for the next document; it is skipped.
EmbedDocFails ==
    /\ bpc = "embed"
    /\ build_next <= Len(build_docs)
    /\ build_log' = Append(build_log, [text |-> build_docs[build_next].text, ok |-> FALSE])
    /\ build_next' = build_next + 1
    /\ UNCHANGED <<model_name, index, texts, metadata, embeddings, bpc, content_list,
                   build_docs, build_embeddings, build_texts, build_metadata,
                   build_result, save_result, load_result, builds, saved, ops>>
    /\ UNCHANGED <<runVars, chunkVars, embedVars, disk, botVars, callVars>>

\* Lines 286-312: the end of build_index; its local lists are gone after it.
BuildFinish ==
    /\ bpc = "embed"
    /\ build_next > Len(build_docs)
    /\ IF build_embeddings = <<>>
       THEN /\ build_result' = "False"
            /\ UNCHANGED <<index, texts, metadata, embeddings>>
       ELSE /\ index' = BuiltIndex(build_embeddings)
            /\ texts' = build_texts
            /\ metadata' = build_metadata
            /\ embeddings' = build_embeddings
            /\ build_result' = "True"
    /\ bpc' = "idle"
    /\ build_docs' = <<>>
    /\ build_next' = 1
    /\ build_embeddings' = <<>>
    /\ build_texts' = <<>>
    /\ build_metadata' = <<>>
    /\ build_log' = <<>>
    /\ UNCHANGED <<model_name, content_list, save_result, load_result, builds, saved, ops>>
    /\ UNCHANGED <<runVars, chunkVars, embedVars, disk, botVars, callVars>>

\* Lines 321-343 with an index: the four artifacts are written.
SavedDirectory(model, ix, txts, meta) ==
    [exists        |-> TRUE,
     index_faiss   |-> [exists |-> TRUE, data |-> WriteIndex(ix)],
     texts_pkl     |-> [exists |-> TRUE, data |-> PickleDump(txts)],
     metadata_pkl  |-> [exists |-> TRUE, data |-> PickleDump(meta)],
     config_json   |-> [exists |-> TRUE, data |-> JsonDump(ConfigOf(model, ix))]]

\* save_database(db_dir).  Without an index faiss.write_index raises on None,
\* after os.makedirs has made the directory.
SaveDatabase ==
    /\ bpc = "idle"
    /\ bot_status = "none"
    /\ ops < MaxOps
    /\ IF index.present
       THEN /\ disk' = SavedDirectory(model_name, index, texts, metadata)
            /\ save_result' = "returned"
            /\ saved' = [from_build |-> build_result = "True" /\ load_result = "none",
                         index |-> index, texts |-> texts, metadata |-> metadata]
       ELSE /\ disk' = [disk EXCEPT !.exists = TRUE]
            /\ save_result' = "raised"
            /\ UNCHANGED saved
    /\ ops' = ops + 1
    /\ UNCHANGED <<model_name, index, texts, metadata, embeddings, bpc, content_list,
                   build_docs, build_next, build_embeddings, build_texts,
                   build_metadata, build_log, build_result, load_result, builds>>
    /\ UNCHANGED <<runVars, chunkVars, embedVars, botVars, callVars>>

\* load_database(db_dir), lines 352-368: each artifact is loaded if its file
\* exists; config.json is not read.
LoadDatabase ==
    /\ bpc = "idle"
    /\ bot_status = "none"
    /\ ops < MaxOps
    /\ index' = IF disk.index_faiss.exists
                THEN ReadIndex(disk.index_faiss.data) ELSE index
    /\ texts' = IF disk.texts_pkl.exists
                THEN PickleLoad(disk.texts_pkl.data) ELSE texts
    /\ metadata' = IF disk.metadata_pkl.exists
                   THEN PickleLoad(disk.metadata_pkl.data) ELSE metadata
    /\ load_result' = "returned"
    /\ ops' = ops + 1
    /\ UNCHANGED <<model_name, embeddings, bpc, content_list,
                   build_docs, build_next, build_embeddings, build_texts,
                   build_metadata, build_log, build_result, save_result, builds, saved>>
    /\ UNCHANGED <<runVars, chunkVars, embedVars, disk, botVars, callVars>>

\* VectorDatabase(model_name), lines 33-39: a fresh object takes the place of
\* the one used so far.
NewDatabase ==
    /\ bpc = "idle"
    /\ bot_status = "none"
    /\ ops < MaxOps
    /\ index' = NoIndex
    /\ texts' = <<>>
    /\ metadata' = <<>>
    /\ embeddings' = <<>>
    /\ build_result' = "none"
    /\ save_result' = "none"
    /\ load_result' = "none"
    /\ ops' = ops + 1
    /\ UNCHANGED <<model_name, bpc, content_list, build_docs, build_next,
                   build_embeddings, build_texts, build_metadata, build_log, builds, saved>>
    /\ UNCHANGED <<runVars, chunkVars, embedVars, disk, botVars, callVars>>

\* ---------------------------------------------------------------------
\* RAGChatbot: load_vector_database
\* ---------------------------------------------------------------------
\* The first artifact, in the order lines 57-70 read them, that is missing;
\* "" when all four are there.
FirstMissing(dir) ==
    IF ~dir.index_faiss.exists THEN "index.faiss"
    ELSE IF ~dir.texts_pkl.exists THEN "texts.pkl"
    ELSE IF ~dir.metadata_pkl.exists THEN "metadata.pkl"
    ELSE IF ~dir.config_json.exists THEN "config.json"
    ELSE ""

\* RAGChatbot(vector_db_path, chat_model, embedding_model), lines 36-51 and
\* 53-75: the artifacts are read in order; the first that is missing makes
\* load_vector_database raise Exception("... " + str(e)), and str(e) names it.
BotLoad(model) ==
    /\ bot_status = "none"
    /\ bpc = "idle"
    /\ ops < MaxOps
    /\ embedding_model' = model
    /\ LET missing == FirstMissing(disk)
       IN  /\ bot_index' = IF missing # "index.faiss"
                           THEN ReadIndex(disk.index_faiss.data) ELSE bot_index
           /\ bot_texts' = IF missing \notin {"index.faiss", "texts.pkl"}
                           THEN PickleLoad(disk.texts_pkl.data) ELSE bot_texts
           /\ bot_metadata' = IF missing \in {"config.json", ""}
                              THEN PickleLoad(disk.metadata_pkl.data) ELSE bot_metadata
           /\ bot_config' = IF missing = ""
                            THEN JsonLoad(disk.config_json.data) ELSE bot_config
           /\ bot_status' = IF missing = "" THEN "loaded" ELSE "failed"
           /\ bot_error' = missing
    /\ conversation_history' = <<>>
    /\ ops' = ops + 1
    /\ UNCHANGED <<model_name, index, texts, metadata, embeddings, bpc, content_list,
                   build_docs, build_next, build_embeddings, build_texts,
                   build_metadata, build_log, build_result, save_result, load_result, builds, saved>>
    /\ UNCHANGED <<runVars, chunkVars, embedVars, disk, callVars>>

\* ---------------------------------------------------------------------
\* The database specification
\* ---------------------------------------------------------------------
DefaultModelName == "text-embedding-3-small"

DefaultEmbeddingModel == "text-embedding-3-large"

\* A database saved by an earlier run, and what is left of it when some of
\* its artifacts have been removed.
OldDirectory ==
    LET old_docs == ProcessMdContent(<<"#", " ", "o">>, "old.md", DefaultMinChunkSize)
    IN  SavedDirectory(DefaultModelName, BuiltIndex(<<<<3, 4>>>>),
                       <<old_docs[1].text>>, old_docs)

Artifacts == {"index.faiss", "texts.pkl", "metadata.pkl", "config.json"}

Without(dir, missing) ==
    [exists        |-> TRUE,
     index_faiss   |-> IF "index.faiss" \in missing THEN NoIndexFile ELSE dir.index_faiss,
     texts_pkl     |-> IF "texts.pkl" \in missing THEN NoListFile ELSE dir.texts_pkl,
     metadata_pkl  |-> IF "metadata.pkl" \in missing THEN NoListFile ELSE dir.metadata_pkl,
     config_json   |-> IF "config.json" \in missing THEN NoConfigFile ELSE dir.config_json]

\* No directory, the old database whole, with one artifact missing, or with
\* none left.
InitialDisks ==
    {NoDirectory}
        \cup {Without(OldDirectory, missing) :
                 missing \in {m \in SUBSET Artifacts : Cardinality(m) \in {0, 1, 4}}}

\* A fresh VectorDatabase(model_name) (lines 33-39), the parsed content it
\* will be given, and the database directory as it is found.
InitDb ==
    /\ model_name = DefaultModelName
    /\ index = NoIndex
    /\ texts = <<>>
    /\ metadata = <<>>
    /\ embeddings = <<>>
    /\ bpc = "idle"
    /\ content_list \in ContentLists
    /\ build_docs = <<>>
    /\ build_next = 1
    /\ build_embeddings = <<>>
    /\ build_texts = <<>>
    /\ build_metadata = <<>>
    /\ build_log = <<>>
    /\ build_result = "none"
    /\ save_result = "none"
    /\ load_result = "none"
    /\ builds = 0
    /\ ops = 0
    /\ saved = NothingSaved
    /\ disk \in InitialDisks
    /\ ChunkIdle /\ EmbedIdle /\ BotIdle /\ CallIdle /\ RunIdle

NextDb ==
    \/ BuildStart
    \/ EmbedDocSucceeds
    \/ EmbedDocFails
    \/ BuildFinish
    \/ SaveDatabase
    \/ LoadDatabase
    \/ NewDatabase
    \/ BotLoad(DefaultEmbeddingModel)

SpecDb == InitDb /\ [][NextDb]_vars

\* ---------------------------------------------------------------------
\* RAGChatbot: search_similar_documents, chat, clear_history
\* ---------------------------------------------------------------------
MaxIndexed == 2
MaxTopK == 3
MaxChats == 7

\* top_k=5 of chat, and the 10 of conversation_history[-10:].
ChatTopK == 5

HistoryWindow == 10

\* max_retries: int = 3 of VectorDatabase.get_embedding.
DefaultMaxRetries == 3

\* The vectors the service may answer with for text-embedding-ada-002, which
\* has the dimension of text-embedding-3-small.
AdaVectors == {<<1, 0>>, <<0, 1>>, <<4, 3>>}

QueryVectors(model) ==
    IF model = "text-embedding-ada-002" THEN AdaVectors ELSE ServiceVectors(model)

botFields == <<bot_status, bot_error, embedding_model, bot_index, bot_texts,
               bot_metadata, bot_config>>

\* The k-th chunk of a database: one file with one heading.
ChunkOf(k) ==
    ProcessMdContent(<<"#", " ", <<"a", "b", "c">>[k]>>, "a.md", DefaultMinChunkSize)[1]

\* The directory build_index and save_database leave when the chunks
\* 1..Len(embs) got the embeddings embs from the service.
BuiltDirectory(model, embs) ==
    LET docs == [k \in 1..Len(embs) |-> ChunkOf(k)]
    IN  SavedDirectory(model, BuiltIndex(embs),
                       [k \in 1..Len(embs) |-> docs[k].text], docs)

\* A directory whose index.faiss holds no vector; save_database never writes
\* one, so it was made by other means.
EmptyIndexDirectory ==
    SavedDirectory(DefaultModelName,
                   [present |-> TRUE, d |-> EmbeddingDimension(DefaultModelName),
                    vectors |-> <<>>],
                   <<>>, <<>>)

\* Lines 36-51 and 53-75 on a complete directory: the chatbot after its
\* construction.
LoadedBot(dir, model) ==
    /\ disk = dir
    /\ bot_status = "loaded"
    /\ bot_error = ""
    /\ embedding_model = model
    /\ bot_index = ReadIndex(dir.index_faiss.data)
    /\ bot_texts = PickleLoad(dir.texts_pkl.data)
    /\ bot_metadata = PickleLoad(dir.metadata_pkl.data)
    /\ bot_config = JsonLoad(dir.config_json.data)
    /\ conversation_history = <<>>

\* faiss: IndexFlatIP.search.  The k best vectors by inner product with the
\* query, best first; vectors of equal inner product come in an order the
\* library chooses; with fewer than k vectors the rest is filled with -1.
Perms(n) == {p \in [1..n -> 1..n] : \A i, j \in 1..n : i # j => p[i] # p[j]}

Scores(ix, q) == [i \in 1..Len(ix.vectors) |-> InnerProduct(ix.vectors[i], q)]

\* Every order of the vectors takes the place of the order by inner product.
RankingsAnyOrder(ix, q) == Perms(Len(ix.vectors))

Rankings(ix, q) ==
    {p \in Perms(Len(ix.vectors)) :
        \A i, j \in 1..Len(ix.vectors) :
            i < j => ~Less(Scores(ix, q)[p[i]], Scores(ix, q)[p[j]])}

NoDistance == [num |-> 0 - 1, den |-> 1]

FaissSearch(ix, q, k) ==
    {[i \in 1..k |->
         IF i <= Len(ix.vectors)
         THEN [idx |-> p[i] - 1, distance |-> Scores(ix, q)[p[i]]]
         ELSE [idx |-> 0 - 1, distance |-> NoDistance]] : p \in Rankings(ix, q)}

\* Lines 106-117: the results for the hits whose index is not -1.
RECURSIVE SearchResults(_, _, _, _)
SearchResults(hits, i, txts, meta) ==
    IF i > Len(hits) THEN <<>>
    ELSE (IF hits[i].idx # 0 - 1
          THEN <<[text       |-> txts[hits[i].idx + 1],
                  metadata   |-> meta[hits[i].idx + 1],
                  similarity |-> hits[i].distance,
                  rank       |-> i]>>
          ELSE <<>>)
         \o SearchResults(hits, i + 1, txts, meta)

\* str(n) for n >= 0.
RECURSIVE IntToStr(_)
IntToStr(n) ==
    LET digit == <<"0", "1", "2", "3", "4", "5", "6", "7", "8", "9">>[(n % 10) + 1]
    IN  IF n < 10 THEN <<digit>> ELSE Append(IntToStr(n \div 10), digit)

\* dict.get(key, default)
DictGet(d, key, default) == IF key \in DOMAIN d THEN d[key] ELSE default

\* The literal texts of lines 127 and 188; ASCII letters stand for the
\* Chinese ones.
SectionLabel == <<"[", "s", "e", "c", "t", "i", "o", "n", " ", "-", " ">>

NotAvailable == <<"N", "/", "A">>

AnswerErrorLabel == <<"e", "r", "r", "o", "r", ":", " ">>

\* Lines 148-164: the system prompt; its text before {context} is kept as
\* one line.
SystemPrompt(ctx) ==
    <<"c", "o", "n", "t", "e", "x", "t", ":", "\n">> \o ctx \o <<"\n">>

\* Lines 123-130: one part of the context.
ContextPart(doc) ==
    LET source_info ==
            IF DictGet(doc.metadata, "source", "") = "markdown"
            THEN SectionLabel
                 \o DictGet(doc.metadata, "section_title", NotAvailable)
                 \o <<" ", "(", "L", "e", "v", "e", "l", " ">>
                 \o IntToStr(DictGet(doc.metadata, "section_level", 0))
                 \o <<")", "]">>
            ELSE <<>>
    IN  source_info \o <<"\n">> \o doc.text \o <<"\n">>

\* A result whose text an earlier result has is left out.
GenerateContextDeduplicated(docs) ==
    LET kept == {k \in 1..Len(docs) : \A j \in 1..(k - 1) : docs[j].text # docs[k].text}
        parts == [i \in 1..Cardinality(kept) |->
                     ContextPart(docs[CHOOSE k \in kept :
                                          Cardinality({h \in kept : h < k}) = i - 1])]
    IN  Join(<<"\n", "-", "-", "-", "\n">>, parts)

\* generate_context_from_documents
GenerateContextFromDocuments(docs) ==
    Join(<<"\n", "-", "-", "-", "\n">>, [k \in 1..Len(docs) |-> ContextPart(docs[k])])

\* conversation_history[:10]
RecentHistoryOldest(history) ==
    SubSeq(history, 1, Min(<<HistoryWindow, Len(history)>>))

\* conversation_history[-10:]
RecentHistory(history) ==
    SubSeq(history, Len(history) - Min(<<HistoryWindow, Len(history)>>) + 1, Len(history))

\* Lines 163-174: the messages sent to the chat service.
GenerateMessages(query, ctx, history) ==
    <<[role |-> "system", content |-> SystemPrompt(ctx)]>>
        \o RecentHistory(history)
        \o <<[role |-> "user", content |-> query]>>

\* Only the user's message is appended.
UpdatedHistoryUserOnly(history, query, answer) ==
    Append(history, [role |-> "user", content |-> query])

\* The assistant's message is appended before the user's.
UpdatedHistoryAssistantFirst(history, query, answer) ==
    history \o <<[role |-> "assistant", content |-> answer],
                 [role |-> "user", content |-> query]>>

\* Lines 210-211.
UpdatedHistory(history, query, answer) ==
    history \o <<[role |-> "user", content |-> query],
                 [role |-> "assistant", content |-> answer]>>

UserQueries == {<<"q">>, <<"r">>}

Answers == {<<"a">>}

ChatErrors == {<<"x">>}

\* What a call starts from.
CallStarts ==
    /\ query_requests' = 0
    /\ query_vector' = <<>>
    /\ similar_docs' = <<>>
    /\ context' = <<>>
    /\ messages' = <<>>
    /\ response' = <<>>
    /\ call_result' = "none"
    /\ history_before' = conversation_history
    /\ cpc' = "embed"

\* search_similar_documents(query, top_k) is called.
SearchCall(query, k) ==
    /\ bot_status = "loaded"
    /\ cpc = "idle"
    /\ caller' = "search_similar_documents"
    /\ user_query' = query
    /\ top_k' = k
    /\ CallStarts
    /\ UNCHANGED <<chats, botVars>>
    /\ UNCHANGED <<runVars, chunkVars, embedVars, dbVars, disk>>

\* chat(user_query) is called; line 201 passes top_k=5.
ChatCall(query) ==
    /\ bot_status = "loaded"
    /\ cpc = "idle"
    /\ chats < MaxChats
    /\ chats' = chats + 1
    /\ caller' = "chat"
    /\ user_query' = query
    /\ top_k' = ChatTopK
    /\ CallStarts
    /\ UNCHANGED botVars
    /\ UNCHANGED <<runVars, chunkVars, embedVars, dbVars, disk>>

\* Lines 77-83 and 97-101: the one request of RAGChatbot.get_embedding is
\* answered.
QueryEmbedSucceeds ==
    /\ cpc = "embed"
    /\ query_requests' = query_requests + 1
    /\ \E v \in QueryVectors(embedding_model) : query_vector' = v
    /\ cpc' = "search"
    /\ UNCHANGED <<caller, user_query, top_k, similar_docs, context, messages,
                   response, call_result, history_before, chats, botVars>>
    /\ UNCHANGED <<runVars, chunkVars, embedVars, dbVars, disk>>

\* The user's message is in the history when the failure leaves chat.
QueryEmbedFailsAfterAppend ==
    /\ cpc = "embed"
    /\ query_requests' = query_requests + 1
    /\ call_result' = "APIError"
    /\ cpc' = "idle"
    /\ conversation_history' =
           IF caller = "chat"
           THEN Append(conversation_history, [role |-> "user", content |-> user_query])
           ELSE conversation_history
    /\ UNCHANGED <<caller, user_query, top_k, query_vector, similar_docs, context,
                   messages, response, history_before, chats, botFields>>
    /\ UNCHANGED <<runVars, chunkVars, embedVars, dbVars, disk>>

\* Lines 77-83: the request fails; nothing catches the exception in
\* get_embedding, search_similar_documents or chat.
QueryEmbedFails ==
    /\ cpc = "embed"
    /\ query_requests' = query_requests + 1
    /\ call_result' = "APIError"
    /\ cpc' = "idle"
    /\ UNCHANGED <<caller, user_query, top_k, query_vector, similar_docs, context,
                   messages, response, history_before, chats, botVars>>
    /\ UNCHANGED <<runVars, chunkVars, embedVars, dbVars, disk>>

\* Lines 98-117, and for chat lines 204-174 up to the request to the chat
\* service.  The faiss wrapper asserts that the query has the dimension of
\* the index.
IndexSearch ==
    /\ cpc = "search"
    /\ IF Len(query_vector) # bot_index.d
       THEN /\ call_result' = "AssertionError"
            /\ cpc' = "idle"
            /\ UNCHANGED <<similar_docs, context, messages>>
       ELSE \E hits \in FaissSearch(bot_index, NormalizeL2(query_vector), top_k) :
               LET results == SearchResults(hits, 1, bot_texts, bot_metadata)
                   ctx == GenerateContextFromDocuments(results)
               IN  /\ similar_docs' = results
                   /\ IF caller = "chat"
                      THEN /\ context' = ctx
                           /\ messages' = GenerateMessages(user_query, ctx,
                                                           conversation_history)
                           /\ cpc' = "complete"
                           /\ UNCHANGED call_result
                      ELSE /\ call_result' = "returned"
                           /\ cpc' = "idle"
                           /\ UNCHANGED <<context, messages>>
    /\ UNCHANGED <<caller, user_query, top_k, query_requests, query_vector,
                   response, history_before, chats, botVars>>
    /\ UNCHANGED <<runVars, chunkVars, embedVars, dbVars, disk>>

\* Lines 177-185 and 209-218: the chat service answers.
ChatCompletionSucceeds ==
    /\ cpc = "complete"
    /\ \E answer \in Answers :
          /\ response' = answer
          /\ conversation_history' =
                 UpdatedHistory(conversation_history, user_query, answer)
    /\ call_result' = "returned"
    /\ cpc' = "idle"
    /\ UNCHANGED <<caller, user_query, top_k, query_requests, query_vector,
                   similar_docs, context, messages, history_before, chats, botFields>>
    /\ UNCHANGED <<runVars, chunkVars, embedVars, dbVars, disk>>

\* Lines 187-188 and 209-218: the chat service fails; generate_response
\* returns the error text.
ChatCompletionFails ==
    /\ cpc = "complete"
    /\ \E e \in ChatErrors :
          /\ response' = AnswerErrorLabel \o e
          /\ conversation_history' =
                 UpdatedHistory(conversation_history, user_query, AnswerErrorLabel \o e)
    /\ call_result' = "returned"
    /\ cpc' = "idle"
    /\ UNCHANGED <<caller, user_query, top_k, query_requests, query_vector,
                   similar_docs, context, messages, history_before, chats, botFields>>
    /\ UNCHANGED <<runVars, chunkVars, embedVars, dbVars, disk>>

\* Only the last two messages are removed.
ClearHistoryLastTurn ==
    /\ bot_status = "loaded"
    /\ cpc = "idle"
    /\ caller # "clear_history"
    /\ conversation_history' =
           SubSeq(conversation_history, 1, Len(conversation_history) - 2)
    /\ caller' = "clear_history"
    /\ call_result' = "returned"
    /\ UNCHANGED <<cpc, user_query, top_k, query_requests, query_vector,
                   similar_docs, context, messages, response, history_before, chats,
                   botFields>>
    /\ UNCHANGED <<runVars, chunkVars, embedVars, dbVars, disk>>

\* clear_history(), lines 220-222.  A second call in a row changes nothing.
ClearHistory ==
    /\ bot_status = "loaded"
    /\ cpc = "idle"
    /\ caller # "clear_history"
    /\ conversation_history' = <<>>
    /\ caller' = "clear_history"
    /\ call_result' = "returned"
    /\ UNCHANGED <<cpc, user_query, top_k, query_requests, query_vector,
                   similar_docs, context, messages, response, history_before, chats,
                   botFields>>
    /\ UNCHANGED <<runVars, chunkVars, embedVars, dbVars, disk>>

\* The databases searched: built with each model from one to MaxIndexed
\* chunks, and the one without vectors.
EmbeddingLists(model) ==
    UNION {[1..n -> QueryVectors(model)] : n \in 1..MaxIndexed}

InitSearch ==
    /\ \E model \in Models, built \in Models :
          \E embs \in EmbeddingLists(built) :
             \/ LoadedBot(BuiltDirectory(built, embs), model)
             \/ LoadedBot(EmptyIndexDirectory, model)
    /\ ChunkIdle /\ EmbedIdle /\ DbIdle /\ CallIdle /\ RunIdle

NextSearch ==
    \/ \E query \in UserQueries, k \in 1..MaxTopK : SearchCall(query, k)
    \/ QueryEmbedSucceeds
    \/ QueryEmbedFails
    \/ IndexSearch

SpecSearch == InitSearch /\ [][NextSearch]_vars

\* The chatbot that chats: on a database of two chunks built with the default
\* model of VectorDatabase, with that model or with its own default model.
ChatDirectory == BuiltDirectory(DefaultModelName, <<<<0, 1>>, <<3, 4>>>>)

InitChat ==
    /\ \E model \in {DefaultModelName, DefaultEmbeddingModel} :
          LoadedBot(ChatDirectory, model)
    /\ ChunkIdle /\ EmbedIdle /\ DbIdle /\ CallIdle /\ RunIdle

NextChat ==
    \/ \E query \in UserQueries : ChatCall(query)
    \/ QueryEmbedSucceeds
    \/ QueryEmbedFails
    \/ IndexSearch
    \/ ChatCompletionSucceeds
    \/ ChatCompletionFails
    \/ ClearHistory

SpecChat == InitChat /\ [][NextChat]_vars

\* ---------------------------------------------------------------------
\* RAGChatbot: generate_context_from_documents on the results of a search
\* ---------------------------------------------------------------------
\* Two files with the same text give two chunks with the same text and the
\* same embedding.
DuplicateDirectory ==
    LET docs == <<ProcessMdContent(<<"#", " ", "a">>, "a.md", DefaultMinChunkSize)[1],
                  ProcessMdContent(<<"#", " ", "a">>, "b.md", DefaultMinChunkSize)[1]>>
    IN  SavedDirectory(DefaultModelName, BuiltIndex(<<<<0, 1>>, <<0, 1>>>>),
                       <<docs[1].text, docs[2].text>>, docs)

\* One chunk of two merged sections, the first of level 2.
MergedDirectory ==
    LET docs == ProcessMdContent(<<"#", "#", " ", "b", "\n", "#", " ", "c">>, "c.md",
                                 DefaultMinChunkSize)
    IN  SavedDirectory(DefaultModelName, BuiltIndex(<<<<3, 4>>>>),
                       <<docs[1].text>>, docs)

ContextDirectories ==
    {EmptyIndexDirectory, DuplicateDirectory, MergedDirectory, ChatDirectory}

\* Line 204 of chat: generate_context_from_documents is given the results the
\* search returned.
GenerateContext ==
    /\ cpc = "idle"
    /\ caller = "search_similar_documents"
    /\ call_result = "returned"
    /\ context' = GenerateContextFromDocuments(similar_docs)
    /\ caller' = "generate_context_from_documents"
    /\ UNCHANGED <<cpc, user_query, top_k, query_requests, query_vector, similar_docs,
                   messages, response, call_result, history_before, chats, botVars>>
    /\ UNCHANGED <<runVars, chunkVars, embedVars, dbVars, disk>>

InitContext ==
    /\ \E dir \in ContextDirectories : LoadedBot(dir, DefaultModelName)
    /\ ChunkIdle /\ EmbedIdle /\ DbIdle /\ CallIdle /\ RunIdle

NextContext ==
    \/ \E query \in UserQueries, k \in 1..MaxTopK : SearchCall(query, k)
    \/ QueryEmbedSucceeds
    \/ QueryEmbedFails
    \/ IndexSearch
    \/ GenerateContext

SpecContext == InitContext /\ [][NextContext]_vars

\* ---------------------------------------------------------------------
\* step2_vector_database.py as a command (load_parsed_content and the
\* __main__ block) and run_rag_system.py, which launches it
\*
\* `disk` is the directory args.db_dir names.
\* ---------------------------------------------------------------------
MaxWalk == 3

\* The database name given with -d/--db-name to run_rag_system.py.
DbNames == {<<"m", "e", "d">>}

\* The option strings of lines 404-409 and the one run_step2 passes.
InputDirOption == <<"-", "-", "i", "n", "p", "u", "t", "-", "d", "i", "r">>

DbNameOption == <<"-", "-", "d", "b", "-", "n", "a", "m", "e">>

Options ==
    {[long |-> InputDirOption, short |-> <<"-", "i">>, dest |-> "input_dir"],
     [long |-> <<"-", "-", "d", "b", "-", "d", "i", "r">>, short |-> <<"-", "d">>,
      dest |-> "db_dir"],
     [long |-> <<"-", "-", "m", "o", "d", "e", "l">>, short |-> <<"-", "m">>,
      dest |-> "model"],
     [long |-> <<"-", "-", "h", "e", "l", "p">>, short |-> <<"-", "h">>,
      dest |-> "help"]}

\* argparse: the destination of an option string; a long option may be
\* abbreviated to a prefix that only one option has.  "" when no option, or
\* more than one, matches.
OptionDest(arg) ==
    LET exact == {o \in Options : arg \in {o.long, o.short}}
        abbreviated == {o \in Options :
                           StartsWith(arg, <<"-", "-">>) /\ StartsWith(o.long, arg)}
    IN  IF exact # {} THEN (CHOOSE o \in exact : TRUE).dest
        ELSE IF Cardinality(abbreviated) = 1 THEN (CHOOSE o \in abbreviated : TRUE).dest
        ELSE ""

\* parser.parse_args() of line 411 over sys.argv[1:]: each of the three
\* options takes one value, which may not look like an option; anything
\* else is "unrecognized arguments".
RECURSIVE ParseArgs(_, _)
ParseArgs(rest, parsed) ==
    IF rest = <<>> THEN [status |-> "ok", args |-> parsed]
    ELSE LET dest == OptionDest(Head(rest))
         IN  IF dest = "help" THEN [status |-> "help", args |-> parsed]
             ELSE IF dest = "" THEN [status |-> "error", args |-> parsed]
             ELSE IF Len(rest) < 2 \/ StartsWith(rest[2], <<"-">>)
             THEN [status |-> "error", args |-> parsed]
             ELSE ParseArgs(SubSeq(rest, 3, Len(rest)),
                            [parsed EXCEPT ![dest] = rest[2]])

\* os.path.join(root, file)
PathJoin(root, file) == root \o <<"/">> \o file

\* d[key] = value on a dictionary; <<>> is the empty dictionary.
DictSet(d, key, value) ==
    [k \in DOMAIN d \cup {key} |-> IF k = key THEN value ELSE d[k]]

\* The files step 1 may leave under its output directory: where os.walk finds
\* them, their names and their contents.
WalkFiles ==
    {[sub |-> <<>>, file |-> <<"a", ".", "m", "d">>, data |-> <<"#", " ", "a">>],
     [sub |-> <<"/", "x">>, file |-> <<"b", ".", "m", "d">>,
      data |-> <<"#", "#", " ", "b", "\n", "c">>],
     [sub |-> <<>>, file |-> <<"n", ".", "t", "x", "t">>, data |-> <<"#", " ", "n">>],
     [sub |-> <<>>, file |-> <<"e", ".", "m", "d">>, data |-> <<>>]}

\* The files in the order os.walk yields them; no file is met twice.
WalkLists ==
    {w \in UNION {[1..k -> WalkFiles] : k \in 0..MaxWalk} :
        \A i, j \in 1..Len(w) : i # j => w[i] # w[j]}

ExistingOutputs == {[exists |-> TRUE, walk |-> w] : w \in WalkLists}

OutputAt(dir) == IF dir \in DOMAIN outputs THEN outputs[dir] ELSE NoOutput

\* Lines 380-381: load_parsed_content(args.input_dir) is called; os.walk of
\* a directory that does not exist yields nothing.
LoadStart ==
    /\ mpc = "parsed"
    /\ walk_left' = OutputAt(args.input_dir).walk
    /\ heap' = <<<<>>>>
    /\ content_ref' = 1
    /\ load_list' = <<>>
    /\ mpc' = "load"
    /\ UNCHANGED <<rpc, run_mode, db_name, outputs, argv, args, returncode>>
    /\ UNCHANGED <<chunkVars, embedVars, dbVars, disk, botVars, callVars>>

\* The loop body without line 393: every entry is filled into the one
\* dictionary made before the loop.
LoadFileSharedDict ==
    /\ mpc = "load"
    /\ walk_left # <<>>
    /\ LET entry == Head(walk_left)
           path == PathJoin(args.input_dir \o entry.sub, entry.file)
       IN  IF EndsWith(entry.file, <<".", "m", "d">>)
           THEN /\ heap' = [heap EXCEPT ![content_ref] =
                               DictSet(DictSet(@, "md_data", entry.data), "md_path", path)]
                /\ load_list' = Append(load_list, content_ref)
                /\ UNCHANGED content_ref
           ELSE UNCHANGED <<heap, load_list, content_ref>>
    /\ walk_left' = Tail(walk_left)
    /\ UNCHANGED <<rpc, run_mode, db_name, outputs, mpc, argv, args, returncode>>
    /\ UNCHANGED <<chunkVars, embedVars, dbVars, disk, botVars, callVars>>

\* Lines 383-393: the next file of the walk.  A .md file fills the dictionary
\* `content` refers to, which is appended to content_list; then `content`
\* refers to a new empty dictionary.
LoadFile ==
    /\ mpc = "load"
    /\ walk_left # <<>>
    /\ LET entry == Head(walk_left)
           path == PathJoin(args.input_dir \o entry.sub, entry.file)
       IN  IF EndsWith(entry.file, <<".", "m", "d">>)
           THEN /\ heap' = Append([heap EXCEPT ![content_ref] =
                                      DictSet(DictSet(@, "md_data", entry.data),
                                              "md_path", path)],
                                  <<>>)
                /\ load_list' = Append(load_list, content_ref)
                /\ content_ref' = Len(heap) + 1
           ELSE UNCHANGED <<heap, load_list, content_ref>>
    /\ walk_left' = Tail(walk_left)
    /\ UNCHANGED <<rpc, run_mode, db_name, outputs, mpc, argv, args, returncode>>
    /\ UNCHANGED <<chunkVars, embedVars, dbVars, disk, botVars, callVars>>

\* Lines 395 and 419-426: the list is returned; without an entry the command
\* ends with status 1 (line 424 raises AttributeError before exit(1) is
\* reached, and the interpreter's status for that is 1 as well).
LoadReturn ==
    /\ mpc = "load"
    /\ walk_left = <<>>
    /\ content_list' = [k \in 1..Len(load_list) |-> heap[load_list[k]]]
    /\ IF load_list = <<>>
       THEN /\ mpc' = "exited"
            /\ returncode' = 1
       ELSE /\ mpc' = "construct"
            /\ UNCHANGED returncode
    /\ UNCHANGED <<rpc, run_mode, db_name, outputs, argv, args,
                   walk_left, heap, content_ref, load_list>>
    /\ UNCHANGED <<model_name, index, texts, metadata, embeddings, bpc,
                   build_docs, build_next, build_embeddings, build_texts,
                   build_metadata, build_log, build_result, save_result, load_result,
                   builds, ops, saved>>
    /\ UNCHANGED <<chunkVars, embedVars, disk, botVars, callVars>>

\* Line 411.  An argument the parser does not know ends the command with
\* status 2.
MainParseArgs ==
    /\ mpc = "parse"
    /\ LET parsed == ParseArgs(argv, DefaultArgs)
       IN  IF parsed.status = "ok"
           THEN /\ args' = parsed.args
                /\ mpc' = "parsed"
                /\ UNCHANGED returncode
           ELSE /\ mpc' = "exited"
                /\ returncode' = IF parsed.status = "help" THEN 0 ELSE 2
                /\ UNCHANGED args
    /\ UNCHANGED <<rpc, run_mode, db_name, outputs, argv,
                   walk_left, heap, content_ref, load_list>>
    /\ UNCHANGED <<chunkVars, embedVars, dbVars, disk, botVars, callVars>>

\* Line 432: db = VectorDatabase(api_key=api_key, model_name=args.model).
MainConstruct ==
    /\ mpc = "construct"
    /\ model_name' = args.model
    /\ index' = NoIndex
    /\ texts' = <<>>
    /\ metadata' = <<>>
    /\ embeddings' = <<>>
    /\ mpc' = "build"
    /\ UNCHANGED <<rpc, run_mode, db_name, outputs, argv, args, returncode,
                   walk_left, heap, content_ref, load_list>>
    /\ UNCHANGED <<bpc, content_list, build_docs, build_next, build_embeddings,
                   build_texts, build_metadata, build_log, build_result, save_result,
                   load_result, builds, ops, saved>>
    /\ UNCHANGED <<chunkVars, embedVars, disk, botVars, callVars>>

\* Line 435: success = db.build_index(content_list).
MainBuild ==
    /\ mpc = "build"
    /\ build_result = "none"
    /\ BuildStart

\* The database is saved whatever build_index returned.
MainSaveAlways ==
    /\ mpc = "build"
    /\ bpc = "idle"
    /\ build_result # "none"
    /\ save_result = "none"
    /\ SaveDatabase

\* Lines 437-439: if success: db.save_database(args.db_dir).
MainSave ==
    /\ mpc = "build"
    /\ build_result = "True"
    /\ save_result = "none"
    /\ SaveDatabase

\* Lines 440-442 after the save, and lines 449-451 had it raised.
MainExitSaved ==
    /\ mpc = "build"
    /\ save_result # "none"
    /\ mpc' = "exited"
    /\ returncode' = IF save_result = "returned" THEN 0 ELSE 1
    /\ UNCHANGED <<rpc, run_mode, db_name, outputs, argv, args,
                   walk_left, heap, content_ref, load_list>>
    /\ UNCHANGED <<chunkVars, embedVars, dbVars, disk, botVars, callVars>>

\* Lines 445-447: else: exit(1).  SystemExit is not an Exception, so the
\* handler of line 449 lets it pass.
MainExitFailed ==
    /\ mpc = "build"
    /\ build_result = "False"
    /\ save_result = "none"
    /\ mpc' = "exited"
    /\ returncode' = 1
    /\ UNCHANGED <<rpc, run_mode, db_name, outputs, argv, args,
                   walk_left, heap, content_ref, load_list>>
    /\ UNCHANGED <<chunkVars, embedVars, dbVars, disk, botVars, callVars>>

\* run_rag_system.py --all: run_step1 returns True, having left parsed
\* content in ./output or ./output_<name>.
RunStep1Succeeds ==
    /\ rpc = "start"
    /\ run_mode = "all"
    /\ \E out \in ExistingOutputs :
          outputs' = [outputs EXCEPT ![NamedDir(OutputRoot, db_name)] = out]
    /\ rpc' = "step1_done"
    /\ UNCHANGED <<run_mode, db_name, mpc, argv, args, returncode,
                   walk_left, heap, content_ref, load_list>>
    /\ UNCHANGED <<chunkVars, embedVars, dbVars, disk, botVars, callVars>>

\* run_step1 returns False: main returns.
RunStep1Fails ==
    /\ rpc = "start"
    /\ run_mode = "all"
    /\ rpc' = "stopped"
    /\ UNCHANGED <<run_mode, db_name, outputs, mpc, argv, args, returncode,
                   walk_left, heap, content_ref, load_list>>
    /\ UNCHANGED <<chunkVars, embedVars, dbVars, disk, botVars, callVars>>

\* --step 2, lines 170-176: without the input directory main returns.
RunInputMissing ==
    /\ rpc = "start"
    /\ run_mode = "step2"
    /\ ~OutputAt(NamedDir(OutputRoot, db_name)).exists
    /\ rpc' = "stopped"
    /\ UNCHANGED <<run_mode, db_name, outputs, mpc, argv, args, returncode,
                   walk_left, heap, content_ref, load_list>>
    /\ UNCHANGED <<chunkVars, embedVars, dbVars, disk, botVars, callVars>>

\* run_step2(db_name), lines 83-88: the command is launched, with
\* --db-name <name> when a name was given.
RunStep2 ==
    /\ \/ rpc = "step1_done"
       \/ /\ rpc = "start"
          /\ run_mode = "step2"
          /\ OutputAt(NamedDir(OutputRoot, db_name)).exists
    /\ argv' = IF db_name # NoName THEN <<DbNameOption, db_name>> ELSE <<>>
    /\ mpc' = "parse"
    /\ rpc' = "step2"
    /\ UNCHANGED <<run_mode, db_name, outputs, args, returncode,
                   walk_left, heap, content_ref, load_list>>
    /\ UNCHANGED <<chunkVars, embedVars, dbVars, disk, botVars, callVars>>

\* Lines 94-99 of run_step2 and what main does with its result: a status
\* other than 0 stops the run, and --all goes on to step 3.
RunStep2Returns ==
    /\ rpc = "step2"
    /\ mpc = "exited"
    /\ rpc' = IF returncode # 0 THEN "stopped"
              ELSE IF run_mode = "all" THEN "step3" ELSE "done"
    /\ UNCHANGED <<run_mode, db_name, outputs, mpc, argv, args, returncode,
                   walk_left, heap, content_ref, load_list>>
    /\ UNCHANGED <<chunkVars, embedVars, dbVars, disk, botVars, callVars>>

\* A database an earlier run of the command saved in the directory.
EarlierDirectory ==
    LET old_docs == ProcessMdContent(<<"#", " ", "o">>,
                                     PathJoin(OutputRoot, <<"o", ".", "m", "d">>),
                                     DefaultMinChunkSize)
    IN  SavedDirectory(DefaultModelName, BuiltIndex(<<<<3, 4>>>>),
                       <<old_docs[1].text>>, old_docs)

\* Command lines of step2_vector_database.py typed by hand.
ManualArgvs ==
    LET name == CHOOSE n \in DbNames : TRUE
    IN  {<<>>,
         <<<<"-", "i">>, NamedDir(OutputRoot, name),
           <<"-", "d">>, NamedDir(VectorDbRoot, name)>>,
         <<InputDirOption, NamedDir(OutputRoot, name)>>,
         <<DbNameOption, name>>,
         <<<<"-", "-", "d", "b">>, name>>,
         <<<<"-", "d">>>>}

\* The runner is started with --all or --step 2, with or without a database
\* name, or the command is typed by hand; the object and the directory
\* are untouched.
InitRun ==
    LET OutputDirs == {NamedDir(OutputRoot, name) : name \in DbNames \cup {NoName}}
    IN
    /\ db_name \in DbNames \cup {NoName}
    /\ \/ /\ run_mode = "all"
          /\ rpc = "start"
          /\ mpc = "none"
          /\ argv = <<>>
          /\ outputs = [dir \in OutputDirs |-> NoOutput]
       \/ /\ run_mode = "step2"
          /\ rpc = "start"
          /\ mpc = "none"
          /\ argv = <<>>
          /\ \E out \in ExistingOutputs \cup {NoOutput} :
                outputs = [dir \in OutputDirs |-> out]
       \/ /\ run_mode = "manual"
          /\ db_name = NoName
          /\ rpc = "none"
          /\ mpc = "parse"
          /\ argv \in ManualArgvs
          /\ \E out \in ExistingOutputs \cup {NoOutput} :
                outputs = [dir \in OutputDirs |-> out]
    /\ args = DefaultArgs
    /\ returncode = 0 - 1
    /\ walk_left = <<>>
    /\ heap = <<>>
    /\ content_ref = 0
    /\ load_list = <<>>
    /\ disk \in {NoDirectory, EarlierDirectory}
    /\ DbIdle
    /\ ChunkIdle /\ EmbedIdle /\ BotIdle /\ CallIdle

NextRun ==
    \/ RunStep1Succeeds
    \/ RunStep1Fails
    \/ RunInputMissing
    \/ RunStep2
    \/ MainParseArgs
    \/ LoadStart
    \/ LoadFile
    \/ LoadReturn
    \/ MainConstruct
    \/ MainBuild
    \/ EmbedDocSucceeds
    \/ EmbedDocFails
    \/ BuildFinish
    \/ MainSave
    \/ MainExitSaved
    \/ MainExitFailed
    \/ RunStep2Returns

SpecRun == InitRun /\ [][NextRun]_vars

\* ---------------------------------------------------------------------
\* Properties of build_index
\* ---------------------------------------------------------------------
\* The entries of a build log whose embedding was obtained.
Embedded(log) == SelectSeq(log, LAMBDA e : e.ok)

TextsOf(log) == [k \in 1..Len(log) |-> log[k].text]

\* While build_index runs, the documents attempted so far are the first ones
\* of its list, in order, and the lists it collects hold those that succeeded.
AttemptsInOrder ==
    bpc = "embed" =>
        /\ build_next = Len(build_log) + 1
        /\ Len(build_log) <= Len(build_docs)
        /\ \A k \in 1..Len(build_log) : build_log[k].text = build_docs[k].text
        /\ build_texts = TextsOf(Embedded(build_log))
        /\ Len(build_embeddings) = Len(build_texts)
        /\ Len(build_metadata) = Len(build_texts)
        /\ \A k \in 1..Len(build_metadata) : build_metadata[k].text = build_texts[k]

\* The step on which build_index returns.
ReturnOfBuild ==
    (bpc = "embed" /\ bpc' = "idle") =>
        /\ Len(build_log) = Len(build_docs)
        /\ build_result' \in {"True", "False"}
        /\ build_result' = "True" <=> Embedded(build_log) # <<>>
        /\ build_result' = "True" =>
              /\ index'.present
              /\ Len(index'.vectors) = Len(Embedded(build_log))
              /\ \A k \in 1..Len(index'.vectors) :
                     index'.vectors[k] = NormalizeL2(build_embeddings[k])
              /\ texts' = TextsOf(Embedded(build_log))
              /\ metadata' = build_metadata
        /\ build_result' = "False" =>
              /\ index' = index
              /\ texts' = texts
              /\ metadata' = metadata

\* C12: build_index attempts every chunk in order and goes on after a chunk
\* whose embedding failed; it returns True exactly when at least one chunk was
\* embedded, and the index then holds exactly the embedded chunks; with no
\* chunk embedded it returns False and makes no index, so that no index
\* without vectors exists.
C12_BuildSkipsFailedChunks ==
    /\ [](AttemptsInOrder)
    /\ [][ReturnOfBuild]_vars
    /\ [](index.present => Len(index.vectors) > 0)

\* A build that returned True although it was given more chunks than it
\* embedded.
C12_Witness ==
    /\ build_result = "True"
    /\ bpc = "idle"
    /\ load_result = "none"
    /\ Len(texts) < Len(BuildDocuments(content_list))

\* ---------------------------------------------------------------------
\* Properties of loading a database
\* ---------------------------------------------------------------------
\* C15: a load of a directory in which one of the four artifacts is missing
\* fails, for VectorDatabase.load_database and for
\* RAGChatbot.load_vector_database alike; and the failure for a directory
\* that has lost some artifacts differs from the failure for a directory that
\* does not exist.
C15_MissingArtifactFailsLoad ==
    [][/\ LoadDatabase => FirstMissing(disk) = ""
       /\ BotLoad(DefaultEmbeddingModel) =>
             /\ FirstMissing(disk) # "" => bot_status' = "failed"
             /\ (disk.exists /\ FirstMissing(disk) # "") =>
                    bot_error' # FirstMissing(NoDirectory)]_vars

\* The directory holds a database saved right after a successful build_index.
SavedAfterBuild == saved.from_build

\* C16: after a successful build_index, save_database followed by a load of
\* the directory, by a VectorDatabase or by a RAGChatbot, gives the texts,
\* the metadata and the index (same vectors, same order) that were saved, and
\* the config's total_vectors is the number of texts and of metadata entries
\* and its dimension the index dimension.
C16_SaveLoadRoundTrip ==
    /\ [][/\ (LoadDatabase /\ SavedAfterBuild) =>
                /\ texts' = saved.texts
                /\ metadata' = saved.metadata
                /\ index' = saved.index
          /\ (BotLoad(DefaultEmbeddingModel) /\ SavedAfterBuild) =>
                /\ bot_status' = "loaded"
                /\ bot_texts' = saved.texts
                /\ bot_metadata' = saved.metadata
                /\ bot_index' = saved.index
                /\ bot_config'.total_vectors = Len(bot_texts')
                /\ bot_config'.total_vectors = Len(bot_metadata')
                /\ bot_config'.dimension = bot_index'.d]_vars
    /\ [](SavedAfterBuild =>
             /\ FirstMissing(disk) = ""
             /\ JsonLoad(disk.config_json.data).total_vectors = Len(saved.texts)
             /\ JsonLoad(disk.config_json.data).total_vectors = Len(saved.metadata)
             /\ JsonLoad(disk.config_json.data).dimension = saved.index.d)

\* A fresh VectorDatabase has loaded what another one built and saved.
C16_Witness ==
    /\ SavedAfterBuild
    /\ build_result = "none"
    /\ load_result = "returned"
    /\ texts = saved.texts
    /\ texts # <<>>
    /\ index = saved.index

\* ---------------------------------------------------------------------
\* Properties of search_similar_documents
\* ---------------------------------------------------------------------
\* A call of the chatbot has ended with the embedding service's failure.
QueryFailed == cpc = "idle" /\ call_result = "APIError"

\* C11: a query is reported as failed to the caller of
\* search_similar_documents or chat only after the embedding service has
\* failed max_retries (by default 3) times for that query.
C11_QueryRetryBudget == QueryFailed => query_requests = DefaultMaxRetries

SearchReturned ==
    /\ cpc = "idle"
    /\ caller = "search_similar_documents"
    /\ call_result = "returned"

\* The database and the query of the example: chunks embedded as [1,0] and
\* [0,1], the query [1,0], top_k = 1.
UnitVectorExample ==
    /\ bot_index.vectors = <<NormalizeL2(<<1, 0>>), NormalizeL2(<<0, 1>>)>>
    /\ query_vector = <<1, 0>>
    /\ top_k = 1

\* C13: on an index of n vectors search_similar_documents returns exactly
\* min(top_k, n) results (none for n = 0), which are min(top_k, n) vectors
\* of highest inner product with the normalised query, by non-increasing
\* similarity, the i-th result with rank i; in the example the first chunk
\* is returned with similarity 1.
C13_TopKBySimilarity ==
    SearchReturned =>
        LET n == Len(bot_index.vectors)
            m == Len(similar_docs)
            score(i) == InnerProduct(bot_index.vectors[i], NormalizeL2(query_vector))
        IN  /\ m = Min(<<top_k, n>>)
            /\ \A i \in 1..m : similar_docs[i].rank = i
            /\ \A i, j \in 1..m :
                   i < j => ~Less(similar_docs[i].similarity, similar_docs[j].similarity)
            /\ \E f \in [1..m -> 1..n] :
                   /\ \A i, j \in 1..m : i # j => f[i] # f[j]
                   /\ \A i \in 1..m :
                          /\ similar_docs[i].text = bot_texts[f[i]]
                          /\ similar_docs[i].metadata = bot_metadata[f[i]]
                          /\ similar_docs[i].similarity = score(f[i])
                   /\ \A j \in 1..n :
                          (\A i \in 1..m : f[i] # j) =>
                              \A i \in 1..m : ~Less(similar_docs[i].similarity, score(j))
            /\ UnitVectorExample =>
                   similar_docs = <<[text       |-> bot_texts[1],
                                     metadata   |-> bot_metadata[1],
                                     similarity |-> [num |-> 1, den |-> 1],
                                     rank       |-> 1]>>

\* The search of the example has returned.
C13_Witness == SearchReturned /\ UnitVectorExample

\* C14: a query embedded with a model other than the one recorded in the
\* config of the loaded database is rejected for its dimension, and no search
\* result is produced.
C14_CrossModelRejected ==
    (cpc = "idle" /\ query_vector # <<>> /\ embedding_model # bot_config.model_name) =>
        /\ call_result = "AssertionError"
        /\ similar_docs = <<>>

\* ---------------------------------------------------------------------
\* Properties of chat and clear_history
\* ---------------------------------------------------------------------
Contains(s, sub) ==
    \E i \in 0..(Len(s) - Len(sub)) : SubSeq(s, i + 1, i + Len(sub)) = sub

UserMessage(query) == [role |-> "user", content |-> query]

AssistantMessage(answer) == [role |-> "assistant", content |-> answer]

\* C17: with h messages in the history, the messages sent to the chat
\* service are one system message that contains the context, then the last
\* min(10, h) messages of the history in their order, then the user message
\* with the current query: 2 + min(10, h) messages; the history at that time
\* is still the one the call started with, so the current query is not in it.
C17_PromptMessages ==
    cpc = "complete" =>
        LET h == Len(conversation_history)
            w == Min(<<HistoryWindow, h>>)
        IN  /\ conversation_history = history_before
            /\ Len(messages) = 2 + w
            /\ messages[1].role = "system"
            /\ Contains(messages[1].content, context)
            /\ \A i \in 1..w : messages[1 + i] = conversation_history[h - w + i]
            /\ messages[2 + w] = UserMessage(user_query)

\* A prompt is sent while the history holds more than 10 messages.
C17_Witness ==
    /\ cpc = "complete"
    /\ Len(conversation_history) > HistoryWindow
    /\ context # <<>>

ChatReturned == caller = "chat" /\ cpc = "idle" /\ call_result = "returned"

\* C18: a chat call that returns appends exactly the user query and then the
\* assistant response to conversation_history, after the response was
\* generated; when the chat service fails the call returns all the same and
\* the assistant message is the error text.
C18_TwoTurnsAppended ==
    /\ [][(cpc = "complete" /\ cpc' = "idle") =>
             /\ call_result' = "returned"
             /\ conversation_history' =
                    conversation_history
                        \o <<UserMessage(user_query), AssistantMessage(response')>>]_vars
    /\ [][ChatCompletionFails =>
             /\ call_result' = "returned"
             /\ \E e \in ChatErrors :
                    conversation_history'[Len(conversation_history')] =
                        AssistantMessage(AnswerErrorLabel \o e)]_vars
    /\ []((caller = "chat" /\ cpc # "idle") => conversation_history = history_before)
    /\ [](ChatReturned =>
             conversation_history =
                 history_before \o <<UserMessage(user_query), AssistantMessage(response)>>)

\* A chat has returned the error text of a failed chat completion, after an
\* earlier chat.
C18_Witness ==
    /\ ChatReturned
    /\ Len(conversation_history) >= 4
    /\ \E e \in ChatErrors : response = AnswerErrorLabel \o e

ChatFailed ==
    /\ caller = "chat"
    /\ cpc = "idle"
    /\ call_result \in {"APIError", "AssertionError"}

\* C19: when the query embedding or the index search fails during chat, the
\* failure leaves chat, conversation_history is what it was before the call,
\* and another chat can be made, which starts from that history.
C19_FailedChatKeepsHistory ==
    /\ [](ChatFailed => conversation_history = history_before)
    /\ [][(caller = "chat" /\ cpc \in {"embed", "search"} /\ cpc' = "idle") =>
             /\ call_result' \in {"APIError", "AssertionError"}
             /\ conversation_history' = conversation_history]_vars
    /\ []((ChatFailed /\ chats < MaxChats) =>
             ENABLED (\E query \in UserQueries : ChatCall(query)))
    /\ [][(ChatFailed /\ cpc' = "embed") =>
             /\ conversation_history' = conversation_history
             /\ history_before' = conversation_history]_vars

\* A chat has failed on a chatbot that has a history.
C19_Witness == ChatFailed /\ Len(conversation_history) >= 2

\* C20: clear_history makes conversation_history empty and leaves the index,
\* the texts, the metadata and the config of the chatbot as they are; the
\* chat that follows sends a prompt without history messages.
C20_ClearHistory ==
    /\ [][(caller # "clear_history" /\ caller' = "clear_history") =>
             /\ conversation_history' = <<>>
             /\ UNCHANGED <<bot_index, bot_texts, bot_metadata, bot_config>>]_vars
    /\ [][(caller = "clear_history" /\ caller' = "chat") => history_before' = <<>>]_vars
    /\ []((cpc = "complete" /\ history_before = <<>>) =>
             /\ Len(messages) = 2
             /\ messages[1].role = "system"
             /\ messages[2] = UserMessage(user_query))

\* The history of a chat that had returned has been cleared.
C20_Witness ==
    /\ caller = "clear_history"
    /\ conversation_history = <<>>
    /\ response # <<>>
    /\ bot_texts # <<>>

\* ---------------------------------------------------------------------
\* Further properties of the VectorDatabase, of process_md_content and of the
\* conversation history
\* ---------------------------------------------------------------------
\* C23: whenever the VectorDatabase has an index, texts and metadata have as
\* many entries as the index has vectors, and entry i of both belongs to the
\* same chunk.
C23_ParallelArrays ==
    index.present =>
        /\ Len(texts) = Len(index.vectors)
        /\ Len(metadata) = Len(index.vectors)
        /\ \A i \in 1..Len(texts) : metadata[i].text = texts[i]

\* The numbers of the heading lines, in increasing order.
HeadingLines ==
    LET numbers == {k \in 1..Len(InputLines) : IsHeadingLine(k)}
    IN  [i \in 1..Cardinality(numbers) |->
            CHOOSE k \in numbers : Cardinality({h \in numbers : h < k}) = i - 1]

\* The lines from heading line k up to the line before the next heading
\* line, joined and trimmed.
LinesUnderHeading(k) ==
    LET last == CHOOSE j \in k..Len(InputLines) :
                    /\ \A h \in (k + 1)..j : ~IsHeadingLine(h)
                    /\ j = Len(InputLines) \/ IsHeadingLine(j + 1)
    IN  Strip(Join(<<"\n">>, SubSeq(InputLines, k, last)))

C28_HistoryAlternates ==
    /\ Len(conversation_history) % 2 = 0
    /\ \A i \in 1..Len(conversation_history) :
           conversation_history[i].role = IF i % 2 = 1 THEN "user" ELSE "assistant"
    /\ (cpc = "complete" /\ Len(messages) > 2) => messages[2].role = "user"

\* A prompt is sent whose history messages start at the third message of the
\* history.
C28_Witness ==
    /\ cpc = "complete"
    /\ Len(conversation_history) = HistoryWindow + 2
    /\ messages[2] = conversation_history[3]
    /\ messages[2].role = "user"

\* ---------------------------------------------------------------------
\* Properties of generate_context_from_documents
\* ---------------------------------------------------------------------
ContextRendered == caller = "generate_context_from_documents"

ContextDelimiter == <<"\n", "-", "-", "-", "\n">>

\* Where the block of result i starts in the context, if every block is
\* followed by the delimiter.
RECURSIVE BlockStart(_)
BlockStart(i) ==
    IF i = 1 THEN 1
    ELSE BlockStart(i - 1) + Len(ContextPart(similar_docs[i - 1])) + Len(ContextDelimiter)

BlockEnd(i) == BlockStart(i) + Len(ContextPart(similar_docs[i])) - 1

\* C21: the context holds one block per result, in the order of the results,
\* each block ending with the result's text between two line breaks, the
\* delimiter line between consecutive blocks and nowhere else; results of
\* the same text get a block each, and no result gives the empty string.
C21_ContextBlocks ==
    ContextRendered =>
        LET m == Len(similar_docs)
        IN  /\ m = 0 => context = <<>>
            /\ m > 0 => Len(context) = BlockEnd(m)
            /\ \A i \in 1..m :
                   /\ SubSeq(context, BlockStart(i), BlockEnd(i)) = ContextPart(similar_docs[i])
                   /\ EndsWith(ContextPart(similar_docs[i]),
                               <<"\n">> \o similar_docs[i].text \o <<"\n">>)
            /\ \A i \in 1..(m - 1) :
                   SubSeq(context, BlockEnd(i) + 1, BlockStart(i + 1) - 1) = ContextDelimiter

\* The context of two results that have the same text.
C21_Witness ==
    /\ ContextRendered
    /\ Len(similar_docs) = 2
    /\ similar_docs[1].text = similar_docs[2].text
    /\ Len(context) = BlockEnd(2)

\* The header of a chunk as process_md_content stored its title and level.
SectionHeader(chunk) ==
    SectionLabel \o chunk.metadata.section_title
        \o <<" ", "(", "L", "e", "v", "e", "l", " ">>
        \o IntToStr(chunk.metadata.section_level) \o <<")", "]">>

\* C22: for a database that build_index built and save_database saved, each
\* block of the context starts with the header that shows the section title
\* and the section level of the retrieved chunk.
C22_HeaderShowsSection ==
    ContextRendered =>
        \A i \in 1..Len(similar_docs) :
            LET header == SectionHeader(similar_docs[i].metadata)
            IN  /\ BlockStart(i) + Len(header) - 1 <= Len(context)
                /\ SubSeq(context, BlockStart(i), BlockStart(i) + Len(header) - 1) = header

\* ---------------------------------------------------------------------
\* Properties of load_parsed_content
\* ---------------------------------------------------------------------
\* The Markdown files among the entries of a walk, in order.
MdEntries(w) == SelectSeq(w, LAMBDA e : EndsWith(e.file, <<".", "m", "d">>))

\* The files the loop has visited so far.
Visited ==
    LET walk == OutputAt(args.input_dir).walk
    IN  SubSeq(walk, 1, Len(walk) - Len(walk_left))

\* The path and the contents of one file.
RecordOf(e) ==
    [md_data |-> e.data, md_path |-> PathJoin(args.input_dir \o e.sub, e.file)]

Loaded == mpc \in {"construct", "build", "exited"} /\ heap # <<>>

\* What holds of the list while it is built and when it is returned.
EntriesAreTheFiles ==
    /\ mpc = "load" =>
          LET md == MdEntries(Visited)
          IN  /\ Len(load_list) = Len(md)
              /\ \A i, j \in 1..Len(load_list) : i # j => load_list[i] # load_list[j]
              /\ \A k \in 1..Len(load_list) :
                    /\ load_list[k] # content_ref
                    /\ heap[load_list[k]] = RecordOf(md[k])
    /\ Loaded =>
          LET md == MdEntries(OutputAt(args.input_dir).walk)
          IN  /\ Len(content_list) = Len(md)
              /\ \A k \in 1..Len(md) : content_list[k] = RecordOf(md[k])
              /\ \A i, j \in 1..Len(md) :
                    i # j => content_list[i].md_path # content_list[j].md_path

\* A step of the loop leaves the entries already in the list as they are.
EarlierEntriesKept ==
    mpc = "load" =>
        \A k \in 1..Len(load_list) : heap'[load_list[k]] = heap[load_list[k]]

\* C24: load_parsed_content returns one entry per Markdown file of the tree,
\* in the order of the walk; the entries are distinct dictionaries, entry k
\* holds the path and the contents of the k-th Markdown file, no two entries
\* have the same path, and appending a later entry never changes an earlier
\* one.
C24_EntriesDistinctRecords == []EntriesAreTheFiles /\ [][EarlierEntriesKept]_vars

\* Two Markdown files and a file that is not Markdown have been loaded.
C24_Witness ==
    /\ mpc = "construct"
    /\ Len(content_list) = 2
    /\ Len(OutputAt(args.input_dir).walk) = 3
    /\ content_list[1].md_data # content_list[2].md_data

\* ---------------------------------------------------------------------
\* Properties of the step-2 command under run_rag_system.py
\* ---------------------------------------------------------------------
\* The runner was given a database name.
NamedRun == run_mode \in {"all", "step2"} /\ db_name # NoName

\* The chunks build_index would make of what step 1 left for the database.
ParsedChunks ==
    LET dir == NamedDir(OutputRoot, db_name)
        md == MdEntries(OutputAt(dir).walk)
    IN  BuildDocuments([k \in 1..Len(md) |->
                           [md_data |-> md[k].data,
                            md_path |-> PathJoin(dir \o md[k].sub, md[k].file)]])

\* C25: step 2 launched for a named database accepts its command line and
\* works from ./output_<name> into ./vector_db_<name>; and a run of all the
\* steps for a named database stops before step 3 only if step 1 failed, the
\* parsed content has no chunk, or no chunk could be embedded.
C25_NamedStep2Builds ==
    /\ (NamedRun /\ mpc \notin {"none", "parse"}) =>
          /\ returncode # 2
          /\ args.input_dir = NamedDir(OutputRoot, db_name)
          /\ args.db_dir = NamedDir(VectorDbRoot, db_name)
    /\ (NamedRun /\ run_mode = "all" /\ rpc = "stopped") =>
          \/ ~OutputAt(NamedDir(OutputRoot, db_name)).exists
          \/ ParsedChunks = <<>>
          \/ build_result = "False"

\* The step on which build_index returns False.
FailedBuildKeepsFields ==
    (bpc = "embed" /\ bpc' = "idle" /\ build_result' = "False") =>
        UNCHANGED <<index, texts, metadata, embeddings>>

\* save_database is entered, and the directory changes, only after
\* build_index returned True.
SaveOnlyAfterSuccess ==
    (save_result' # save_result \/ disk' # disk) => build_result = "True"

\* The command after a failed build.
FailedBuildExits ==
    (mpc = "exited" /\ build_result = "False") =>
        /\ returncode = 1
        /\ save_result = "none"
        /\ saved = NothingSaved

====
